---- MODULE Spec2Model ----
(***************************************************************************)
(* Two-point correlation function entry points of                          *)
(* halotools/mock_observables/clustering.py: tpcf, tpcf_jackknife,         *)
(* redshift_space_tpcf and wp.  One call is modelled as a sequence of      *)
(* steps in source order: argument processing, period normalisation,       *)
(* down-sampling, argument checks, pair counting, random counting and the  *)
(* auto/cross dispatch.                                                    *)
(*                                                                         *)
(* A sample is a record [k, rows]: k is the number of columns and rows is  *)
(* the sequence of its points, each point an identifier that stands for a  *)
(* whole row of k coordinates.  Array comparisons follow the numpy the     *)
(* module was written for (Python 2, "from __future__ import division"):   *)
(* comparing arrays whose shapes do not broadcast yields the scalar False, *)
(* and comparing an array with None yields a scalar.                       *)
(***************************************************************************)
EXTENDS Integers, Sequences, FiniteSets, TLC

VARIABLES
    pc,        \* position of the call in progress
    args,      \* the arguments of the call, as the caller passed them
    sample1,   \* local sample1 (re-bound by down-sampling)
    sample2,   \* local sample2 (sample1 when the argument is None)
    randoms,   \* local randoms
    period,    \* local period vector after normalisation
    PBCs,      \* local PBCs flag
    inds,      \* indices drawn by each down-sampling step (<<>> when not drawn)
    labels,    \* tpcf_jackknife: subvolume labels of sample1, sample2, randoms
    counts,    \* which pair counts have been computed, and how
    calls,     \* the calls made to the pair counters, in order
    result,    \* how the call ended: [kind, exc, value]
    model,     \* empirical_models: the attributes of a ModelFactory instance
    heap       \* empirical_models: the dictionary objects, by identity

vars == <<pc, args, sample1, sample2, randoms, period, PBCs, inds, labels, counts, calls, result,
          model, heap>>

(***************************************************************************)
(* Bounds and input sets                                                   *)
(***************************************************************************)
MaxLen == 3

Inf == 1000000

Points == {1, 2}

None == [k |-> 0, rows |-> <<>>]

Rows == UNION {[1..n -> Points] : n \in 1..MaxLen}

Ramp(n) == [i \in 1..n |-> IF i % 2 = 1 THEN 1 ELSE 2]

Sample(k, rows) == [k |-> k, rows |-> rows]

NoPeriod == [tag |-> "none", v |-> <<>>]

PeriodValues == {4, 8, Inf}

Periods ==
    {NoPeriod}
    \cup {[tag |-> "scalar", v |-> <<L>>] : L \in {8, Inf}}
    \cup {[tag |-> "vector", v |-> p] : p \in [1..2 -> PeriodValues] \cup [1..3 -> PeriodValues]}

BinEdges == {<<1, 2>>, <<1, 3>>, <<1, 2, 5>>}

estimators == <<"Natural", "Davis-Peebles", "Hewett", "Hamilton", "Landy-Szalay">>

EstimatorNames == {estimators[i] : i \in 1..Len(estimators)} \cup {"Peebles-Hauser"}

EntryPoints == {"tpcf", "tpcf_jackknife", "redshift_space_tpcf", "wp"}

(***************************************************************************)
(* Helpers                                                                 *)
(***************************************************************************)
SeqMax(s) == CHOOSE x \in {s[i] : i \in 1..Len(s)} : \A j \in 1..Len(s) : s[j] <= x

SeqMin(s) == CHOOSE x \in {s[i] : i \in 1..Len(s)} : \A j \in 1..Len(s) : x <= s[j]

Take(rows, ix) == [i \in 1..Len(ix) |-> rows[ix[i]]]

\* np.all(a == b) for two samples: elementwise when the shapes agree, broadcast
\* when one of them has a single row, and the scalar False when the shapes do
\* not broadcast (row counts differ and neither is 1, or column counts differ).
NpAllEqual(a, b) ==
    IF a = None \/ b = None THEN FALSE
    ELSE IF a.k # b.k THEN FALSE
    ELSE IF Len(a.rows) = Len(b.rows) THEN \A i \in 1..Len(a.rows) : a.rows[i] = b.rows[i]
    ELSE IF Len(a.rows) = 1 THEN \A i \in 1..Len(b.rows) : b.rows[i] = a.rows[1]
    ELSE IF Len(b.rows) = 1 THEN \A i \in 1..Len(a.rows) : a.rows[i] = b.rows[1]
    ELSE FALSE

\* inds = np.arange(0,n); np.random.shuffle(inds); inds = inds[0:m]
\* every outcome of the shuffle: the injective index sequences of length m.
DrawInds(n, m) ==
    {s \in [1..m -> 1..n] : \A i, j \in 1..m : i # j => s[i] # s[j]}

\* "if len(sample) > max_sample_size" (and, for sample2, the extra condition):
\* the index sequences the step may draw, <<>> when the sample is kept.
MaybeDraw(cond, smp, m) == IF cond THEN DrawInds(Len(smp.rows), m) ELSE {<<>>}

Resample(smp, ix) == IF ix = <<>> THEN smp ELSE Sample(smp.k, Take(smp.rows, ix))

\* ProcessPeriod without the check of the vector's length.
ProcessPeriodNoShapeCheck(p, k) ==
    IF p.tag = "none" THEN [ok |-> TRUE, PBCs |-> FALSE, period |-> [i \in 1..k |-> Inf]]
    ELSE IF p.tag = "scalar" THEN [ok |-> TRUE, PBCs |-> TRUE, period |-> [i \in 1..k |-> p.v[1]]]
    ELSE [ok |-> TRUE, PBCs |-> TRUE, period |-> [i \in 1..k |-> p.v[1]]]

\* Period processing of an entry point: [ok, PBCs, period].
ProcessPeriod(p, k) ==
    IF p.tag = "none" THEN [ok |-> TRUE, PBCs |-> FALSE, period |-> [i \in 1..k |-> Inf]]
    ELSE IF p.tag = "scalar" THEN [ok |-> TRUE, PBCs |-> TRUE, period |-> [i \in 1..k |-> p.v[1]]]
    ELSE IF Len(p.v) # k THEN [ok |-> FALSE, PBCs |-> TRUE, period |-> p.v]
    ELSE [ok |-> TRUE, PBCs |-> TRUE, period |-> p.v]

IsSupported(est) == \E i \in 1..Len(estimators) : estimators[i] = est

\* ValidateTpcf without the check that randoms are given when there is no period.
ValidateTpcfNoRandomsCheck(rbins, s1, s2, rnd, per, pbcs, est) ==
    IF 2 * SeqMax(rbins) > SeqMin(per) THEN "ValueError"
    ELSE IF s1.k # s2.k THEN "ValueError"
    ELSE IF ~IsSupported(est) THEN "AttributeError"
    ELSE IF pbcs /\ SeqMax(per) = Inf THEN "ValueError"
    ELSE "ok"

\* The argument checks of tpcf, in source order: "ok" or the exception raised.
\* np.max(rbins) > np.min(period)/2.0 is compared as 2*max > min.
\* The message of the estimator check is built with str.value, which does not
\* exist: evaluating the raise statement's argument raises AttributeError.
ValidateTpcf(rbins, s1, s2, rnd, per, pbcs, est) ==
    IF 2 * SeqMax(rbins) > SeqMin(per) THEN "ValueError"
    ELSE IF s1.k # s2.k THEN "ValueError"
    ELSE IF rnd = None /\ SeqMin(per) = Inf THEN "ValueError"
    ELSE IF ~IsSupported(est) THEN "AttributeError"
    ELSE IF pbcs /\ SeqMax(per) = Inf THEN "ValueError"
    ELSE "ok"

\* ValidateRs without the check of pi_bins.
ValidateRsNoPiCheck(rp_bins, pi_bins, s1, s2, rnd, per, pbcs, est) ==
    IF 2 * SeqMax(rp_bins) > SeqMin(SubSeq(per, 1, 2)) THEN "ValueError"
    ELSE IF s1.k # s2.k THEN "ValueError"
    ELSE IF rnd = None /\ SeqMin(per) = Inf THEN "ValueError"
    ELSE IF ~IsSupported(est) THEN "AttributeError"
    ELSE IF pbcs /\ SeqMax(per) = Inf THEN "ValueError"
    ELSE "ok"

\* The argument checks of redshift_space_tpcf: rp_bins against period[0:2],
\* pi_bins against period[2].
ValidateRs(rp_bins, pi_bins, s1, s2, rnd, per, pbcs, est) ==
    IF 2 * SeqMax(rp_bins) > SeqMin(SubSeq(per, 1, 2)) THEN "ValueError"
    ELSE IF 2 * SeqMax(pi_bins) > per[3] THEN "ValueError"
    ELSE IF s1.k # s2.k THEN "ValueError"
    ELSE IF rnd = None /\ SeqMin(per) = Inf THEN "ValueError"
    ELSE IF ~IsSupported(est) THEN "AttributeError"
    ELSE IF pbcs /\ SeqMax(per) = Inf THEN "ValueError"
    ELSE "ok"

\* which pairs need to be counted for the chosen estimator
TP_estimator_requirements(est) ==
    IF est = "Natural" THEN [ok |-> TRUE, do_DD |-> TRUE, do_DR |-> FALSE, do_RR |-> TRUE]
    ELSE IF est = "Davis-Peebles" THEN [ok |-> TRUE, do_DD |-> TRUE, do_DR |-> TRUE, do_RR |-> FALSE]
    ELSE IF est \in {"Hewett", "Hamilton", "Landy-Szalay"}
        THEN [ok |-> TRUE, do_DD |-> TRUE, do_DR |-> TRUE, do_RR |-> TRUE]
    ELSE [ok |-> FALSE, do_DD |-> FALSE, do_DR |-> FALSE, do_RR |-> FALSE]

\* One evaluation of TP_estimator, kept as the names of the counts and sizes
\* it is applied to.
TP_estimator(DD, DR, RR, ND1, ND2, NR1, NR2, est) ==
    [DD |-> DD, DR |-> DR, RR |-> RR, ND1 |-> ND1, ND2 |-> ND2, NR1 |-> NR1, NR2 |-> NR2,
     estimator |-> est]

Xi(name, tp) == [name |-> name, xi |-> tp]

(***************************************************************************)
(* tpcf_jackknife helpers                                                  *)
(***************************************************************************)
IntArg(n) == [tag |-> "int", v |-> <<n>>]

VecArg(v) == [tag |-> "vector", v |-> v]

\* "if type(X) is int: X = np.array([X]*k) else: X = np.asarray(X)"
Broadcast(x, k) == IF x.tag = "int" THEN [i \in 1..k |-> x.v[1]] ELSE x.v

\* The checks of tpcf_jackknife after down-sampling, in source order.
ValidateJk(Nsub, rbins, s1, s2, per, pbcs, est) ==
    IF Len(Nsub) # s1.k THEN "ValueError"
    ELSE IF 2 * SeqMax(rbins) > SeqMin(per) THEN "ValueError"
    ELSE IF s1.k # s2.k THEN "ValueError"
    ELSE IF ~IsSupported(est) THEN "AttributeError"
    ELSE IF pbcs /\ SeqMax(per) = Inf THEN "ValueError"
    ELSE "ok"

\* The point identifier p stands for the row (p, p, p).
Coord(p) == <<p, p, p>>

\* np.floor(x/dL) with dL = Lbox/Nsub, per dimension.
CellIndex(x, Lbox, Nsub) == [d \in 1..3 |-> (x[d] * Nsub[d]) \div Lbox[d]]

\* np.arange(a, b)
Arange(a, b) == [i \in 1..(b - a) |-> a + i - 1]

\* The consecutive pieces of s of the given size.
Chunks(s, size) == [i \in 1..(Len(s) \div size) |-> SubSeq(s, (i - 1) * size + 1, i * size)]

\* flat.reshape(n1, n2, n3): n1 blocks of n2 rows of n3 entries, in order.
Reshape3(flat, n1, n2, n3) == [i \in 1..n1 |-> Chunks(Chunks(flat, n2 * n3)[i], n3)]

\* SubvolumeLabel with the labels numbered from 0.
SubvolumeLabelFromZero(x, Lbox, Nsub) ==
    LET c == CellIndex(x, Lbox, Nsub)
        N_sub_vol == Nsub[1] * Nsub[2] * Nsub[3]
        grid == Reshape3(Arange(0, N_sub_vol), Nsub[1], Nsub[2], Nsub[3])
    IN  IF \E d \in 1..3 : c[d] >= Nsub[d] THEN 0
        ELSE grid[c[1] + 1][c[2] + 1][c[3] + 1]

\* inds[ix, iy, iz] of inds = np.arange(1, N_sub_vol+1).reshape(Nsub[0],
\* Nsub[1], Nsub[2]) (grid here): 0 stands for the IndexError numpy raises
\* when an index is out of range.
SubvolumeLabel(x, Lbox, Nsub) ==
    LET c == CellIndex(x, Lbox, Nsub)
        N_sub_vol == Nsub[1] * Nsub[2] * Nsub[3]
        grid == Reshape3(Arange(1, N_sub_vol + 1), Nsub[1], Nsub[2], Nsub[3])
    IN  IF \E d \in 1..3 : c[d] >= Nsub[d] THEN 0
        ELSE grid[c[1] + 1][c[2] + 1][c[3] + 1]

LabelsOf(smp, Lbox, Nsub) ==
    [i \in 1..Len(smp.rows) |-> SubvolumeLabel(Coord(smp.rows[i]), Lbox, Nsub)]

\* get_subvolume_labels: [ok, j_index_1, j_index_2, j_index_random, N_sub_vol]
get_subvolume_labels(s1, s2, rnd, Nsub, Lbox) ==
    LET j1 == LabelsOf(s1, Lbox, Nsub)
        jr == LabelsOf(rnd, Lbox, Nsub)
        j2 == LabelsOf(s2, Lbox, Nsub)
        bad(j) == \E i \in 1..Len(j) : j[i] = 0
    IN  [ok |-> ~(bad(j1) \/ bad(jr) \/ bad(j2)),
         j_index_1 |-> j1, j_index_2 |-> j2, j_index_random |-> jr,
         N_sub_vol |-> Nsub[1] * Nsub[2] * Nsub[3]]

NoLabels == [ok |-> FALSE, j_index_1 |-> <<>>, j_index_2 |-> <<>>, j_index_random |-> <<>>,
             N_sub_vol |-> 0]

(***************************************************************************)
(* Arguments of a call                                                     *)
(***************************************************************************)
Flags == {TRUE, FALSE}

Dims(fn) == IF fn = "tpcf" THEN {2, 3} ELSE {3}

RandomsArgs(fn, S) == IF fn = "tpcf_jackknife" THEN S ELSE S \cup {None}

PiBins(fn, S) == IF fn \in {"redshift_space_tpcf", "wp"} THEN S ELSE {<<>>}

NsubArgs(fn, S) == IF fn = "tpcf_jackknife" THEN S ELSE {IntArg(0)}

LboxArgs(fn, S) == IF fn = "tpcf_jackknife" THEN S ELSE {IntArg(0)}

\* Calls that vary the samples and max_sample_size.
SampleCalls(fn) ==
    [fn : {fn},
     sample1 : {Sample(3, Ramp(n)) : n \in 1..MaxLen},
     sample2 : {None} \cup {Sample(3, r) : r \in Rows},
     randoms : {Sample(3, Ramp(2))},
     period : {[tag |-> "scalar", v |-> <<8>>]},
     rbins : {<<1, 2>>},
     pi_bins : PiBins(fn, {<<1, 2>>}),
     max_sample_size : 1..MaxLen,
     do_auto : Flags, do_cross : Flags,
     estimator : {"Natural"},
     Nsub : NsubArgs(fn, {IntArg(2)}),
     Lbox : LboxArgs(fn, {IntArg(4)})]

\* Calls that vary the period, the bin edges and the dimensions.
PeriodCalls(fn) ==
    [fn : {fn},
     sample1 : {Sample(k, <<1, 2>>) : k \in Dims(fn)},
     sample2 : {None, Sample(2, <<2, 1>>), Sample(3, <<2, 1>>)},
     randoms : RandomsArgs(fn, {Sample(3, Ramp(2))}),
     period : Periods,
     rbins : BinEdges,
     pi_bins : PiBins(fn, BinEdges),
     max_sample_size : {MaxLen},
     do_auto : {TRUE}, do_cross : {TRUE},
     estimator : {"Natural", "Peebles-Hauser"},
     Nsub : NsubArgs(fn, {IntArg(2), VecArg(<<2, 2, 2>>), VecArg(<<2, 2>>)}),
     Lbox : LboxArgs(fn, {IntArg(4), VecArg(<<4, 4, 2>>)})]

\* Calls that vary the estimator, the flags and the presence of randoms.
EstimatorCalls(fn) ==
    [fn : {fn},
     sample1 : {Sample(3, <<1, 2>>)},
     sample2 : {None, Sample(3, <<1, 2>>), Sample(3, <<2, 1>>), Sample(3, <<2>>)},
     randoms : RandomsArgs(fn, {Sample(3, Ramp(2))}),
     period : {NoPeriod, [tag |-> "scalar", v |-> <<8>>], [tag |-> "vector", v |-> <<8, 8, 4>>]},
     rbins : {<<1, 2>>},
     pi_bins : PiBins(fn, {<<1, 2>>}),
     max_sample_size : {MaxLen},
     do_auto : Flags, do_cross : Flags,
     estimator : EstimatorNames,
     Nsub : NsubArgs(fn, {IntArg(2)}),
     Lbox : LboxArgs(fn, {IntArg(4)})]

CallArgs == UNION {SampleCalls(fn) \cup PeriodCalls(fn) \cup EstimatorCalls(fn) : fn \in EntryPoints}

NoArgs ==
    [fn |-> "tpcf", sample1 |-> None, sample2 |-> None, randoms |-> None, period |-> NoPeriod,
     rbins |-> <<>>, pi_bins |-> <<>>, max_sample_size |-> 0, do_auto |-> TRUE,
     do_cross |-> TRUE, estimator |-> "Natural", Nsub |-> IntArg(0), Lbox |-> IntArg(0)]

(***************************************************************************)
(* Results                                                                 *)
(***************************************************************************)
Running == [kind |-> "none", exc |-> "", value |-> <<>>]

Raise(e) == [kind |-> "raise", exc |-> e, value |-> <<>>]

\* value is the sequence of arrays returned; <<>> is Python's None.
Return(v) == [kind |-> "return", exc |-> "", value |-> v]

NoCounts == [D1D1 |-> "unset", D1D2 |-> "unset", D2D2 |-> "unset",
             D1R |-> "unset", D2R |-> "unset", RR |-> "unset"]

NoInds == [sample1 |-> <<>>, sample2 |-> <<>>, randoms |-> <<>>]

\* No ModelFactory instance and no dictionary: the state of empirical_models
\* while a correlation function is computed.
NoModel == [mock |-> <<>>, redshift |-> <<>>, created |-> 0]

NoHeap == <<>>

PairCounter(fn) ==
    IF fn = "tpcf" THEN "npairs" ELSE IF fn = "tpcf_jackknife" THEN "jnpairs" ELSE "xy_z_npairs"

PairCall(fn, a, b) == [f |-> PairCounter(fn), a |-> a, b |-> b]

\* NextStep with the argument checks of tpcf placed after the counting.
NextStepChecksLast(fn, p) ==
    CASE p = "period" -> "downsample"
      [] p = "downsample" -> IF fn = "tpcf" THEN "pairs" ELSE "validate"
      [] p = "validate" -> IF fn = "tpcf" THEN "dispatch"
                           ELSE IF fn = "tpcf_jackknife" THEN "labels" ELSE "pairs"
      [] p = "labels" -> "pairs"
      [] p = "pairs" -> "randoms"
      [] p = "randoms" -> IF fn = "tpcf" THEN "validate" ELSE "dispatch"
      [] p = "dispatch" -> IF fn = "wp" THEN "integrate" ELSE "done"
      [] OTHER -> "done"

\* The order of the steps of an entry point.
NextStep(fn, p) ==
    CASE p = "period" -> "downsample"
      [] p = "downsample" -> "validate"
      [] p = "validate" -> IF fn = "tpcf_jackknife" THEN "labels" ELSE "pairs"
      [] p = "labels" -> "pairs"
      [] p = "pairs" -> "randoms"
      [] p = "randoms" -> "dispatch"
      [] p = "dispatch" -> IF fn = "wp" THEN "integrate" ELSE "done"
      [] OTHER -> "done"

\* Dispatch that looks at the flags before the equality of the samples.
DispatchFlagsFirst(equal, do_auto, do_cross, est) ==
    IF ~do_auto /\ ~do_cross THEN <<>>
    ELSE IF equal THEN <<Xi("xi_11", TP_estimator("D1D1", "D1R", "RR", "N1", "N1", "NR", "NR", est))>>
    ELSE IF do_auto /\ do_cross THEN
        <<Xi("xi_11", TP_estimator("D1D1", "D1R", "RR", "N1", "N1", "NR", "NR", est)),
          Xi("xi_12", TP_estimator("D1D2", "D1R", "RR", "N1", "N2", "NR", "NR", est)),
          Xi("xi_22", TP_estimator("D2D2", "D2R", "RR", "N2", "N2", "NR", "NR", est))>>
    ELSE IF do_cross THEN
        <<Xi("xi_12", TP_estimator("D1D2", "D1R", "RR", "N1", "N2", "NR", "NR", est))>>
    ELSE <<Xi("xi_11", TP_estimator("D1D1", "D1R", "D1R", "N1", "N1", "NR", "NR", est))>>

\* The final if/else of tpcf and of redshift_space_tpcf.
Dispatch(equal, do_auto, do_cross, est) ==
    IF equal THEN <<Xi("xi_11", TP_estimator("D1D1", "D1R", "RR", "N1", "N1", "NR", "NR", est))>>
    ELSE IF do_auto /\ do_cross THEN
        <<Xi("xi_11", TP_estimator("D1D1", "D1R", "RR", "N1", "N1", "NR", "NR", est)),
          Xi("xi_12", TP_estimator("D1D2", "D1R", "RR", "N1", "N2", "NR", "NR", est)),
          Xi("xi_22", TP_estimator("D2D2", "D2R", "RR", "N2", "N2", "NR", "NR", est))>>
    ELSE IF do_cross THEN
        <<Xi("xi_12", TP_estimator("D1D2", "D1R", "RR", "N1", "N2", "NR", "NR", est))>>
    ELSE IF do_auto THEN
        <<Xi("xi_11", TP_estimator("D1D1", "D1R", "D1R", "N1", "N1", "NR", "NR", est))>>
    ELSE <<>>

\* DispatchJk returning the cross-correlation before the auto-correlations.
DispatchJkCrossFirst(equal, do_auto, do_cross, est) ==
    LET xi_11_full == Xi("xi_11_full", TP_estimator("D1D1_full", "D1R_full", "RR_full", "N1", "N1", "NR", "NR", est))
        xi_12_full == Xi("xi_12_full", TP_estimator("D1D2_full", "D1R_full", "RR_full", "N1", "N2", "NR", "NR", est))
        xi_22_full == Xi("xi_22_full", TP_estimator("D2D2_full", "D2R_full", "RR_full", "N2", "N2", "NR", "NR", est))
        xi_11_cov == Xi("xi_11_cov", TP_estimator("D1D1_sub", "D1R_sub", "RR_sub", "N1_subs", "N1_subs", "NR_subs", "NR_subs", est))
        xi_12_cov == Xi("xi_12_cov", TP_estimator("D1D2_sub", "D1R_sub", "RR_sub", "N1_subs", "N2_subs", "NR_subs", "NR_subs", est))
        xi_22_cov == Xi("xi_22_cov", TP_estimator("D2D2_sub", "D2R_sub", "RR_sub", "N2_subs", "N2_subs", "NR_subs", "NR_subs", est))
    IN  IF equal THEN <<xi_11_full, xi_11_cov>>
        ELSE IF do_auto /\ do_cross THEN
            <<xi_12_full, xi_11_full, xi_22_full, xi_12_cov, xi_11_cov, xi_22_cov>>
        ELSE IF do_auto THEN <<xi_11_full, xi_22_full, xi_11_cov, xi_22_cov>>
        ELSE IF do_cross THEN <<xi_12_full, xi_12_cov>>
        ELSE <<>>

\* The final if/else of tpcf_jackknife.
DispatchJk(equal, do_auto, do_cross, est) ==
    LET xi_11_full == Xi("xi_11_full", TP_estimator("D1D1_full", "D1R_full", "RR_full", "N1", "N1", "NR", "NR", est))
        xi_12_full == Xi("xi_12_full", TP_estimator("D1D2_full", "D1R_full", "RR_full", "N1", "N2", "NR", "NR", est))
        xi_22_full == Xi("xi_22_full", TP_estimator("D2D2_full", "D2R_full", "RR_full", "N2", "N2", "NR", "NR", est))
        xi_11_cov == Xi("xi_11_cov", TP_estimator("D1D1_sub", "D1R_sub", "RR_sub", "N1_subs", "N1_subs", "NR_subs", "NR_subs", est))
        xi_12_cov == Xi("xi_12_cov", TP_estimator("D1D2_sub", "D1R_sub", "RR_sub", "N1_subs", "N2_subs", "NR_subs", "NR_subs", est))
        xi_22_cov == Xi("xi_22_cov", TP_estimator("D2D2_sub", "D2R_sub", "RR_sub", "N2_subs", "N2_subs", "NR_subs", "NR_subs", est))
    IN  IF equal THEN <<xi_11_full, xi_11_cov>>
        ELSE IF do_auto /\ do_cross THEN
            <<xi_11_full, xi_12_full, xi_22_full, xi_11_cov, xi_12_cov, xi_22_cov>>
        ELSE IF do_auto THEN <<xi_11_full, xi_22_full, xi_11_cov, xi_22_cov>>
        ELSE IF do_cross THEN <<xi_12_full, xi_12_cov>>
        ELSE <<>>

Wp(name, src) == [name |-> name, of |-> src]

\* WpIntegrate without "if sample2 is None: do_cross=False".
WpIntegrateNoNoneCheck(res, a) ==
    LET do_cross == a.do_cross /\ ~NpAllEqual(a.sample2, a.sample1)
    IN  IF a.do_auto /\ do_cross THEN
            IF Len(res) = 3
            THEN Return(<<Wp("wp_D1D1", <<res[1]>>), Wp("wp_D1D2", <<res[2]>>), Wp("wp_D2D2", <<res[3]>>)>>)
            ELSE Raise("ValueError")
        ELSE IF ~a.do_auto /\ do_cross THEN
            IF res = <<>> THEN Raise("TypeError") ELSE Return(<<Wp("wp_D1D2", res)>>)
        ELSE
            IF res = <<>> THEN Raise("TypeError") ELSE Return(<<Wp("wp_D1D1", res)>>)

\* The body of wp after redshift_space_tpcf has returned res. The samples
\* compared are the caller's arguments.
WpIntegrate(res, a) ==
    LET do_cross == a.do_cross /\ ~NpAllEqual(a.sample2, a.sample1) /\ a.sample2 # None
    IN  IF a.do_auto /\ do_cross THEN
            \* result[0], result[1], result[2]: of a single 2-D array these are
            \* its rows, and np.sum(..., axis=1) of a 1-D array raises.
            IF Len(res) = 3
            THEN Return(<<Wp("wp_D1D1", <<res[1]>>), Wp("wp_D1D2", <<res[2]>>), Wp("wp_D2D2", <<res[3]>>)>>)
            ELSE Raise("ValueError")
        ELSE IF ~a.do_auto /\ do_cross THEN
            IF res = <<>> THEN Raise("TypeError") ELSE Return(<<Wp("wp_D1D2", res)>>)
        ELSE
            IF res = <<>> THEN Raise("TypeError") ELSE Return(<<Wp("wp_D1D1", res)>>)

\* pair_counts / jnpair_counts: the pair-counter calls made and the counts set.
PairCounts(fn, s1, s2) ==
    IF NpAllEqual(s1, s2)
    THEN [calls |-> <<PairCall(fn, s1, s1)>>,
          D1D1 |-> "counted", D1D2 |-> "D1D1", D2D2 |-> "D1D1"]
    ELSE [calls |-> <<PairCall(fn, s1, s1), PairCall(fn, s1, s2), PairCall(fn, s2, s2)>>,
          D1D1 |-> "counted", D1D2 |-> "counted", D2D2 |-> "counted"]

\* random_counts of tpcf and of redshift_space_tpcf.
RandomCounts(fn, s1, s2, rnd, pbcs, req) ==
    LET equal == NpAllEqual(s1, s2)
        rr == <<PairCall(fn, rnd, rnd)>>
        d1r == <<PairCall(fn, s1, rnd)>>
        d2r == <<PairCall(fn, s2, rnd)>>
    IN  IF ~pbcs THEN
            [calls |-> rr \o d1r \o (IF equal THEN <<>> ELSE d2r),
             D1R |-> "counted", D2R |-> IF equal THEN "None" ELSE "counted", RR |-> "counted"]
        ELSE IF rnd # None THEN
            [calls |-> (IF req.do_RR THEN rr ELSE <<>>) \o (IF req.do_DR THEN d1r ELSE <<>>)
                       \o (IF ~equal /\ req.do_DR THEN d2r ELSE <<>>),
             D1R |-> IF req.do_DR THEN "counted" ELSE "None",
             D2R |-> IF ~equal /\ req.do_DR THEN "counted" ELSE "None",
             RR |-> IF req.do_RR THEN "counted" ELSE "None"]
        ELSE
            [calls |-> <<>>,
             D1R |-> "analytic", D2R |-> IF equal THEN "None" ELSE "analytic",
             RR |-> IF equal THEN "D1R" ELSE "analytic"]

\* jrandom_counts for sample1, then D2R, in tpcf_jackknife.
RandomCountsJk(fn, s1, s2, rnd, req) ==
    LET equal == NpAllEqual(s1, s2)
    IN  [calls |-> (IF req.do_DR THEN <<PairCall(fn, s1, rnd)>> ELSE <<>>)
                   \o (IF req.do_RR THEN <<PairCall(fn, rnd, rnd)>> ELSE <<>>)
                   \o (IF ~equal /\ req.do_DR THEN <<PairCall(fn, s2, rnd)>> ELSE <<>>),
         D1R |-> IF req.do_DR THEN "counted" ELSE "None",
         D2R |-> IF equal THEN "D1R" ELSE IF req.do_DR THEN "counted" ELSE "None",
         RR |-> IF req.do_RR THEN "counted" ELSE "None"]

(***************************************************************************)
(* The evaluations of TP_estimator                                         *)
(***************************************************************************)
\* The counts the formula of an estimator reads.
Reads(est) ==
    IF est = "Natural" THEN {"DD", "RR"}
    ELSE IF est = "Davis-Peebles" THEN {"DD", "DR"}
    ELSE {"DD", "DR", "RR"}

\* The count an argument of TP_estimator is taken from: X for X, X_full = X[0,:]
\* and X_sub = X[1:,:].
CountOf(name) ==
    CASE name \in {"D1D1", "D1D1_full", "D1D1_sub"} -> "D1D1"
      [] name \in {"D1D2", "D1D2_full", "D1D2_sub"} -> "D1D2"
      [] name \in {"D2D2", "D2D2_full", "D2D2_sub"} -> "D2D2"
      [] name \in {"D1R", "D1R_full", "D1R_sub"} -> "D1R"
      [] name \in {"D2R", "D2R_full", "D2R_sub"} -> "D2R"
      [] OTHER -> "RR"

\* How a count was obtained ("counted", "analytic", "None", "unset"), through
\* the assignments "D1D2 = D1D1", "D2R = D1R", "RR = D1R".
StatusOf(c, name) ==
    LET s == c[CountOf(name)]
    IN  IF s \in {"D1D1", "D1R"} THEN c[s] ELSE s

\* The evaluation tp of TP_estimator reads a count that is None: the
\* division of an array by None raises TypeError.
ReadsNone(tp, c) ==
    \E f \in Reads(tp.estimator) : StatusOf(c, tp[f]) = "None"

\* The TP_estimator calls evaluated by the final if/else of tpcf and of
\* redshift_space_tpcf, in source order; the last branch evaluates xi_22 and
\* returns xi_11 alone.
Evaluated(equal, do_auto, do_cross, est) ==
    IF equal \/ do_cross THEN [i \in DOMAIN Dispatch(equal, do_auto, do_cross, est) |->
                                    Dispatch(equal, do_auto, do_cross, est)[i].xi]
    ELSE IF do_auto THEN
        <<TP_estimator("D1D1", "D1R", "D1R", "N1", "N1", "NR", "NR", est),
          TP_estimator("D2D2", "D2R", "D2R", "N2", "N2", "NR", "NR", est)>>
    ELSE <<>>

\* The TP_estimator calls tpcf_jackknife evaluates, whatever the flags are.
EvaluatedJk(est) ==
    [i \in 1..6 |-> DispatchJk(FALSE, TRUE, TRUE, est)[i].xi]

\* The exception raised between the counting and the return, "ok" when there
\* is none.  In tpcf_jackknife the Hamilton branch of TP_estimator returns the
\* estimates of the resamples transposed (Nbins rows, N_sub_vol columns), and
\* covariance_matrix indexes them [k,i] with k in range(N_sub_vol) and i in
\* range(Nbins): IndexError unless the two numbers are equal.
DispatchError(fn, equal, do_auto, do_cross, est, c, N_sub_vol, Nbins) ==
    LET ev == IF fn = "tpcf_jackknife" THEN EvaluatedJk(est)
              ELSE Evaluated(equal, do_auto, do_cross, est)
    IN  IF \E i \in 1..Len(ev) : ReadsNone(ev[i], c) THEN "TypeError"
        ELSE IF fn = "tpcf_jackknife" /\ est = "Hamilton" /\ N_sub_vol # Nbins THEN "IndexError"
        ELSE "ok"

(***************************************************************************)
(* The steps of a call                                                     *)
(***************************************************************************)
Init ==
    /\ pc = "idle"
    /\ args = NoArgs
    /\ sample1 = None
    /\ sample2 = None
    /\ randoms = None
    /\ period = <<>>
    /\ PBCs = FALSE
    /\ inds = NoInds
    /\ labels = NoLabels
    /\ counts = NoCounts
    /\ calls = <<>>
    /\ result = Running
    /\ model = NoModel
    /\ heap = NoHeap

Fail(e) ==
    /\ pc' = "done"
    /\ result' = Raise(e)

\* An entry point is called: np.asarray of the arguments, sample2 = sample1
\* when sample2 is None.
Call ==
    /\ pc = "idle"
    /\ \E a \in CallArgs :
        /\ args' = a
        /\ sample1' = a.sample1
        /\ sample2' = IF a.sample2 = None THEN a.sample1 ELSE a.sample2
        /\ randoms' = a.randoms
    /\ pc' = "period"
    /\ period' = <<>>
    /\ PBCs' = FALSE
    /\ inds' = NoInds
    /\ labels' = NoLabels
    /\ counts' = NoCounts
    /\ calls' = <<>>
    /\ result' = Running
    /\ UNCHANGED <<model, heap>>

\* "Process period entry and check for consistency."
StepPeriod ==
    /\ pc = "period"
    /\ LET r == ProcessPeriod(args.period, sample1.k)
       IN  /\ period' = r.period
           /\ PBCs' = r.PBCs
           /\ IF r.ok
              THEN pc' = NextStep(args.fn, pc) /\ result' = result
              ELSE Fail("ValueError")
    /\ UNCHANGED <<args, sample1, sample2, randoms, inds, labels, counts, calls, model, heap>>

\* "down sample is sample size exceeds max_sample_size."
StepDownsample ==
    /\ pc = "downsample"
    /\ LET m == args.max_sample_size
       IN  \E ix2 \in MaybeDraw(Len(sample2.rows) > m /\ ~NpAllEqual(sample1, sample2), sample2, m),
              ix1 \in MaybeDraw(Len(sample1.rows) > m, sample1, m),
              ixr \in MaybeDraw(args.fn = "tpcf_jackknife" /\ Len(randoms.rows) > m, randoms, m) :
            /\ sample2' = Resample(sample2, ix2)
            \* tpcf_jackknife assigns the down-sampled randoms to sample1
            /\ sample1' = IF ixr # <<>> THEN Resample(randoms, ixr) ELSE Resample(sample1, ix1)
            /\ inds' = [sample1 |-> ix1, sample2 |-> ix2, randoms |-> ixr]
    /\ pc' = NextStep(args.fn, pc)
    /\ UNCHANGED <<args, randoms, period, PBCs, labels, counts, calls, result, model, heap>>

\* "check for input parameter consistency"
StepValidate ==
    /\ pc = "validate"
    /\ LET v == IF args.fn = "tpcf"
                THEN ValidateTpcf(args.rbins, sample1, sample2, randoms, period, PBCs, args.estimator)
                ELSE IF args.fn = "tpcf_jackknife"
                THEN ValidateJk(Broadcast(args.Nsub, args.sample1.k), args.rbins, sample1, sample2,
                                period, PBCs, args.estimator)
                ELSE ValidateRs(args.rbins, args.pi_bins, sample1, sample2, randoms, period, PBCs,
                                args.estimator)
       IN  IF v = "ok"
           THEN pc' = NextStep(args.fn, pc) /\ result' = result
           ELSE Fail(v)
    /\ UNCHANGED <<args, sample1, sample2, randoms, period, PBCs, inds, labels, counts, calls, model, heap>>

\* tpcf_jackknife: TP_estimator_requirements, get_subvolume_labels.
StepLabels ==
    /\ pc = "labels"
    /\ LET req == TP_estimator_requirements(args.estimator)
           l == get_subvolume_labels(sample1, sample2, randoms,
                                     Broadcast(args.Nsub, args.sample1.k),
                                     Broadcast(args.Lbox, args.sample1.k))
       IN  IF ~req.ok THEN Fail("ValueError") /\ labels' = labels
           ELSE IF ~l.ok THEN Fail("IndexError") /\ labels' = labels
           ELSE /\ labels' = l
                /\ pc' = NextStep(args.fn, pc)
                /\ result' = result
    /\ UNCHANGED <<args, sample1, sample2, randoms, period, PBCs, inds, counts, calls, model, heap>>

\* TP_estimator_requirements (tpcf, redshift_space_tpcf), then the data pair counts.
StepPairs ==
    /\ pc = "pairs"
    /\ LET req == TP_estimator_requirements(args.estimator)
           c == PairCounts(args.fn, sample1, sample2)
       IN  IF ~req.ok THEN Fail("ValueError") /\ UNCHANGED <<counts, calls>>
           ELSE /\ calls' = calls \o c.calls
                /\ counts' = [counts EXCEPT !.D1D1 = c.D1D1, !.D1D2 = c.D1D2, !.D2D2 = c.D2D2]
                /\ pc' = NextStep(args.fn, pc)
                /\ result' = result
    /\ UNCHANGED <<args, sample1, sample2, randoms, period, PBCs, inds, labels, model, heap>>

\* The random pair counts: counted, or analytic when periodic without randoms.
StepRandoms ==
    /\ pc = "randoms"
    /\ LET req == TP_estimator_requirements(args.estimator)
           c == IF args.fn = "tpcf_jackknife"
                THEN RandomCountsJk(args.fn, sample1, sample2, randoms, req)
                ELSE RandomCounts(args.fn, sample1, sample2, randoms, PBCs, req)
       IN  /\ calls' = calls \o c.calls
           /\ counts' = [counts EXCEPT !.D1R = c.D1R, !.D2R = c.D2R, !.RR = c.RR]
    /\ pc' = NextStep(args.fn, pc)
    /\ UNCHANGED <<args, sample1, sample2, randoms, period, PBCs, inds, labels, result, model, heap>>

\* The estimator is applied and the requested correlation functions returned.
StepDispatch ==
    /\ pc = "dispatch"
    /\ LET equal == NpAllEqual(sample2, sample1)
           v == IF args.fn = "tpcf_jackknife"
                THEN DispatchJk(equal, args.do_auto, args.do_cross, args.estimator)
                ELSE Dispatch(equal, args.do_auto, args.do_cross, args.estimator)
           e == DispatchError(args.fn, equal, args.do_auto, args.do_cross, args.estimator,
                              counts, labels.N_sub_vol, Len(args.rbins) - 1)
       IN  IF e # "ok" THEN Fail(e)
           ELSE /\ result' = IF args.fn = "wp" THEN [Running EXCEPT !.value = v] ELSE Return(v)
                /\ pc' = NextStep(args.fn, pc)
    /\ UNCHANGED <<args, sample1, sample2, randoms, period, PBCs, inds, labels, counts, calls, model, heap>>

\* wp: integrate the result of redshift_space_tpcf over pi.
StepIntegrate ==
    /\ pc = "integrate"
    /\ result' = WpIntegrate(result.value, args)
    /\ pc' = "done"
    /\ UNCHANGED <<args, sample1, sample2, randoms, period, PBCs, inds, labels, counts, calls, model, heap>>

\* The call has returned or raised: its locals are discarded.
Finish ==
    /\ pc = "done"
    /\ pc' = "idle"
    /\ args' = NoArgs
    /\ sample1' = None
    /\ sample2' = None
    /\ randoms' = None
    /\ period' = <<>>
    /\ PBCs' = FALSE
    /\ inds' = NoInds
    /\ labels' = NoLabels
    /\ counts' = NoCounts
    /\ calls' = <<>>
    /\ result' = Running
    /\ UNCHANGED <<model, heap>>

Next ==
    \/ Call
    \/ StepPeriod
    \/ StepDownsample
    \/ StepValidate
    \/ StepLabels
    \/ StepPairs
    \/ StepRandoms
    \/ StepDispatch
    \/ StepIntegrate
    \/ Finish

Spec == Init /\ [][Next]_vars

(***************************************************************************)
(* The numerical functions                                                 *)
(*                                                                         *)
(* The functions nested in the entry points are applied to numbers under   *)
(* the specification FnSpec: its initial states draw the arguments of one  *)
(* function, and one action per function applies it.  Floating-point       *)
(* values are exact rationals [n, d] with d > 0, so that "/" is the true   *)
(* division of "from __future__ import division"; numpy applies each       *)
(* arithmetic expression to every bin of its array arguments.              *)
(***************************************************************************)
MaxCount == 3

Rat(n, d) == [n |-> n, d |-> d]

RInt(i) == Rat(i, 1)

RAdd(a, b) == Rat(a.n * b.d + b.n * a.d, a.d * b.d)

RSub(a, b) == Rat(a.n * b.d - b.n * a.d, a.d * b.d)

RMul(a, b) == Rat(a.n * b.n, a.d * b.d)

\* RDiv with a division by zero replaced by the finite value 0.
RDivClipped(a, b) ==
    IF b.n = 0 THEN Rat(0, 1)
    ELSE IF b.n > 0 THEN Rat(a.n * b.d, a.d * b.n) ELSE Rat(0 - a.n * b.d, a.d * (0 - b.n))

\* a / b.  numpy divides by zero without raising (it warns): the value is inf
\* or nan, kept here as a fraction of denominator 0, which every operation
\* above hands on (a finite value divided by an infinite one is 0).
RDiv(a, b) == IF b.n > 0 THEN Rat(a.n * b.d, a.d * b.n) ELSE Rat(0 - a.n * b.d, a.d * (0 - b.n))

REq(a, b) == a.n * b.d = b.n * a.d

\* TP_estimator of redshift_space_tpcf with the factor 2.0 of the
\* Landy-Szalay estimator left out.
EvalTP_rsNoTwo(tp) ==
    LET DD == RInt(tp.DD)
        DR == RInt(tp.DR)
        RR == RInt(tp.RR)
        one == RInt(1)
        factor1 == RDiv(RInt(tp.ND1 * tp.ND2), RInt(tp.NR1 * tp.NR2))
        factor2 == RDiv(RInt(tp.ND1 * tp.NR2), RInt(tp.NR1 * tp.NR2))
    IN  IF tp.estimator = "Natural"
        THEN RSub(RDiv(RMul(RDiv(one, factor1), DD), RR), one)
        ELSE IF tp.estimator = "Davis-Peebles"
        THEN RSub(RDiv(RMul(RDiv(one, RDiv(RInt(tp.ND1 * tp.ND2), RInt(tp.ND1 * tp.NR2))), DD), DR), one)
        ELSE IF tp.estimator = "Hewett"
        THEN RSub(RDiv(RMul(RDiv(one, factor1), DD), RR), RDiv(RMul(RDiv(one, factor2), DR), RR))
        ELSE IF tp.estimator = "Hamilton"
        THEN RSub(RDiv(RMul(DD, RR), RMul(DR, DR)), one)
        ELSE RAdd(RSub(RDiv(RMul(RDiv(one, factor1), DD), RR),
                       RDiv(RMul(RDiv(one, factor2), DR), RR)), one)

\* The value TP_estimator of tpcf returns in one bin, for the application tp.
\* Evaluated left to right as Python does; an unsupported estimator raises.
EvalTP_tpcf(tp) ==
    LET DD == RInt(tp.DD)
        DR == RInt(tp.DR)
        RR == RInt(tp.RR)
        one == RInt(1)
        two == RInt(2)
    IN  IF tp.estimator = "Natural" THEN
            LET factor == RDiv(RInt(tp.ND1 * tp.ND2), RInt(tp.NR1 * tp.NR2))
            IN  RSub(RDiv(RMul(RDiv(one, factor), DD), RR), one)
        ELSE IF tp.estimator = "Davis-Peebles" THEN
            LET factor == RDiv(RInt(tp.ND1 * tp.ND2), RInt(tp.ND1 * tp.NR2))
            IN  RSub(RDiv(RMul(RDiv(one, factor), DD), DR), one)
        ELSE IF tp.estimator = "Hewett" THEN
            LET factor1 == RDiv(RInt(tp.ND1 * tp.ND2), RInt(tp.NR1 * tp.NR2))
                factor2 == RDiv(RInt(tp.ND1 * tp.NR2), RInt(tp.NR1 * tp.NR2))
            IN  RSub(RDiv(RMul(RDiv(one, factor1), DD), RR),
                     RDiv(RMul(RDiv(one, factor2), DR), RR))
        ELSE IF tp.estimator = "Hamilton" THEN
            RSub(RDiv(RMul(DD, RR), RMul(DR, DR)), one)
        ELSE
            LET factor1 == RDiv(RInt(tp.ND1 * tp.ND2), RInt(tp.NR1 * tp.NR2))
                factor2 == RDiv(RInt(tp.ND1 * tp.NR2), RInt(tp.NR1 * tp.NR2))
            IN  RAdd(RSub(RDiv(RMul(RDiv(one, factor1), DD), RR),
                          RDiv(RMul(RMul(RDiv(one, factor2), two), DR), RR)), one)

\* The value TP_estimator of redshift_space_tpcf returns in one bin.
EvalTP_rs(tp) ==
    LET DD == RInt(tp.DD)
        DR == RInt(tp.DR)
        RR == RInt(tp.RR)
        one == RInt(1)
        two == RInt(2)
    IN  IF tp.estimator = "Natural" THEN
            LET factor == RDiv(RInt(tp.ND1 * tp.ND2), RInt(tp.NR1 * tp.NR2))
            IN  RSub(RDiv(RMul(RDiv(one, factor), DD), RR), one)
        ELSE IF tp.estimator = "Davis-Peebles" THEN
            LET factor == RDiv(RInt(tp.ND1 * tp.ND2), RInt(tp.ND1 * tp.NR2))
            IN  RSub(RDiv(RMul(RDiv(one, factor), DD), DR), one)
        ELSE IF tp.estimator = "Hewett" THEN
            LET factor1 == RDiv(RInt(tp.ND1 * tp.ND2), RInt(tp.NR1 * tp.NR2))
                factor2 == RDiv(RInt(tp.ND1 * tp.NR2), RInt(tp.NR1 * tp.NR2))
            IN  RSub(RDiv(RMul(RDiv(one, factor1), DD), RR),
                     RDiv(RMul(RDiv(one, factor2), DR), RR))
        ELSE IF tp.estimator = "Hamilton" THEN
            RSub(RDiv(RMul(DD, RR), RMul(DR, DR)), one)
        ELSE
            LET factor1 == RDiv(RInt(tp.ND1 * tp.ND2), RInt(tp.NR1 * tp.NR2))
                factor2 == RDiv(RInt(tp.ND1 * tp.NR2), RInt(tp.NR1 * tp.NR2))
            IN  RAdd(RSub(RDiv(RMul(RDiv(one, factor1), DD), RR),
                          RDiv(RMul(RMul(RDiv(one, factor2), two), DR), RR)), one)

\* The applications of TP_estimator: counts and sample sizes of one bin.
TP_estimatorInputs ==
    [fn : {"TP_estimator"},
     DD : 1..MaxCount, DR : 1..MaxCount, RR : 1..MaxCount,
     ND1 : 1..MaxCount, ND2 : 1..MaxCount, NR1 : 1..MaxCount, NR2 : 1..MaxCount,
     estimator : EstimatorNames]

\* A function has been applied to args: its value (or exception) is the result.
Apply(f, r) ==
    /\ pc = "input"
    /\ args.fn = f
    /\ result' = r
    /\ pc' = "output"
    /\ UNCHANGED <<args, sample1, sample2, randoms, period, PBCs, inds, labels, counts, calls, model, heap>>

\* TP_estimator of tpcf and of redshift_space_tpcf on the same arguments.
ApplyTP_estimator ==
    LET tp == TP_estimator(args.DD, args.DR, args.RR, args.ND1, args.ND2, args.NR1, args.NR2,
                           args.estimator)
    IN  Apply("TP_estimator",
              IF IsSupported(args.estimator)
              THEN Return(<<EvalTP_tpcf(tp), EvalTP_rs(tp)>>)
              ELSE Raise("ValueError"))

\* One element of the array TP_estimator of tpcf_jackknife computes before its
\* final transposition: (1.0/factor)*(DD/RR) - 1.0 and so on.
EvalTP_jk(tp) ==
    LET DD == RInt(tp.DD)
        DR == RInt(tp.DR)
        RR == RInt(tp.RR)
        one == RInt(1)
        two == RInt(2)
    IN  IF tp.estimator = "Natural" THEN
            LET factor == RDiv(RInt(tp.ND1 * tp.ND2), RInt(tp.NR1 * tp.NR2))
            IN  RSub(RMul(RDiv(one, factor), RDiv(DD, RR)), one)
        ELSE IF tp.estimator = "Davis-Peebles" THEN
            LET factor == RDiv(RInt(tp.ND1 * tp.ND2), RInt(tp.ND1 * tp.NR2))
            IN  RSub(RMul(RDiv(one, factor), RDiv(DD, DR)), one)
        ELSE IF tp.estimator = "Hewett" THEN
            LET factor1 == RDiv(RInt(tp.ND1 * tp.ND2), RInt(tp.NR1 * tp.NR2))
                factor2 == RDiv(RInt(tp.ND1 * tp.NR2), RInt(tp.NR1 * tp.NR2))
            IN  RSub(RMul(RDiv(one, factor1), RDiv(DD, RR)),
                     RMul(RDiv(one, factor2), RDiv(DR, RR)))
        ELSE IF tp.estimator = "Hamilton" THEN
            RSub(RDiv(RMul(DD, RR), RMul(DR, DR)), one)
        ELSE
            LET factor1 == RDiv(RInt(tp.ND1 * tp.ND2), RInt(tp.NR1 * tp.NR2))
                factor2 == RDiv(RInt(tp.ND1 * tp.NR2), RInt(tp.NR1 * tp.NR2))
            IN  RAdd(RSub(RMul(RDiv(one, factor1), RDiv(DD, RR)),
                          RMul(RMul(RDiv(one, factor2), two), RDiv(DR, RR))), one)

\* The applications of TP_estimator to the counts of two bins, a count being
\* 0 in either bin, in both or in none.
TP_estimatorBinsInputs ==
    [fn : {"TP_estimator_bins"},
     DD : [1..2 -> 0..2], DR : [1..2 -> 0..2], RR : [1..2 -> 0..2],
     ND1 : {2}, ND2 : {2, 3}, NR1 : {3}, NR2 : {3},
     estimator : EstimatorNames]

\* The arguments of TP_estimator that belong to bin i.
BinOf(a, i) == TP_estimator(a.DD[i], a.DR[i], a.RR[i], a.ND1, a.ND2, a.NR1, a.NR2, a.estimator)

\* TP_estimator of tpcf, of redshift_space_tpcf and of tpcf_jackknife (full
\* sample) on arrays: numpy applies the expression to every bin.
ApplyTP_estimatorBins ==
    Apply("TP_estimator_bins",
          IF IsSupported(args.estimator)
          THEN Return([tpcf |-> [i \in 1..2 |-> EvalTP_tpcf(BinOf(args, i))],
                       redshift_space_tpcf |-> [i \in 1..2 |-> EvalTP_rs(BinOf(args, i))],
                       tpcf_jackknife |-> [i \in 1..2 |-> EvalTP_jk(BinOf(args, i))]])
          ELSE Raise("ValueError"))

(***************************************************************************)
(* tpcf_jackknife: the jackknife pair counts                               *)
(***************************************************************************)
MaxSubvol == 3

\* The pairs of a sample of n points with itself (self-pairs excluded), and of
\* a sample of n points with one of m points.
AutoPairs(n) == {p \in (1..n) \X (1..n) : p[1] < p[2]}

CrossPairs(n, m) == (1..n) \X (1..m)

\* The separation of each pair as the index of the first bin edge it lies
\* within; an index past the last edge is a pair beyond all bins.
Within(sep, e) == {p \in DOMAIN sep : sep[p] <= e}

\* jnpairs of pair_counters.grid_pairs for rbins of two edges: an array of
\* N_samples+1 rows; row 0 holds the number of pairs within each edge, row r
\* the number of those pairs that touch label r (rows are numbered from 1 here).
jnpairs(sep, jtags1, jtags2, N_samples) ==
    [r \in 1..(N_samples + 1) |->
        [e \in 1..2 |->
            IF r = 1 THEN Cardinality(Within(sep, e))
            ELSE Cardinality({p \in Within(sep, e) : jtags1[p[1]] = r - 1 \/ jtags2[p[2]] = r - 1})]]

\* np.diff(D, axis=1)
NpDiffAxis1(D) == [r \in 1..Len(D) |-> [b \in 1..(Len(D[r]) - 1) |-> D[r][b + 1] - D[r][b]]]

\* jnpair_counts when sample2 is sample1: D1D1 (D1D2 and D2D2 are D1D1).
jnpair_counts(sep, j_index_1, N_sub_vol) ==
    NpDiffAxis1(jnpairs(sep, j_index_1, j_index_1, N_sub_vol))

\* jrandom_counts: DR and RR, <<>> for a count that is not needed (None).
jrandom_counts(sepDR, sepRR, j_index, j_index_randoms, N_sub_vol, do_DR, do_RR) ==
    [DR |-> IF do_DR THEN NpDiffAxis1(jnpairs(sepDR, j_index, j_index_randoms, N_sub_vol)) ELSE <<>>,
     RR |-> IF do_RR THEN NpDiffAxis1(jnpairs(sepRR, j_index_randoms, j_index_randoms, N_sub_vol))
            ELSE <<>>]

\* "X_full = X[0,:]; X_sub = X[1:,:]", None for a count that is None: X is
\* the array the counts were taken from, full and sub are what TP_estimator is
\* given for the full sample and for the resamples.
FullAndSub(X) ==
    IF X = <<>> THEN [X |-> X, full |-> <<>>, sub |-> <<>>]
    ELSE [X |-> X, full |-> X[1], sub |-> SubSeq(X, 2, Len(X))]

\* The data counts of a sample of three labelled points.
jnpair_countsInputs ==
    UNION {[fn : {"jnpair_counts"},
            N_sub_vol : {N},
            j_index_1 : [1..3 -> 1..N],
            sep : [AutoPairs(3) -> 1..3]] : N \in 1..MaxSubvol}

\* The random counts of a sample and randoms of two labelled points each, a
\* pair either in the bin or beyond it.
jrandom_countsInputs ==
    UNION {[fn : {"jrandom_counts"},
            N_sub_vol : {N},
            j_index : [1..2 -> 1..N],
            j_index_randoms : [1..2 -> 1..N],
            sepDR : [CrossPairs(2, 2) -> 2..3],
            sepRR : [AutoPairs(2) -> 2..3],
            estimator : {"Natural", "Davis-Peebles", "Landy-Szalay"}] : N \in 1..MaxSubvol}

\* D1D1 of tpcf_jackknife and its split into the full-sample row and the rows
\* of the resamples.
ApplyJnpairCounts ==
    Apply("jnpair_counts",
          Return([DD |-> FullAndSub(jnpair_counts(args.sep, args.j_index_1, args.N_sub_vol))]))

\* D1R and RR of tpcf_jackknife and their split.
ApplyJrandomCounts ==
    LET req == TP_estimator_requirements(args.estimator)
        c == jrandom_counts(args.sepDR, args.sepRR, args.j_index, args.j_index_randoms,
                            args.N_sub_vol, req.do_DR, req.do_RR)
    IN  Apply("jrandom_counts", Return([DR |-> FullAndSub(c.DR), RR |-> FullAndSub(c.RR)]))

(***************************************************************************)
(* tpcf_jackknife: jackknife errors and covariance matrix                  *)
(***************************************************************************)
XiValues == {0, 1, 3}

RECURSIVE RSum(_, _)
\* s[1] + ... + s[n], accumulated from the left starting at 0.
RSum(s, n) == IF n = 0 THEN RInt(0) ELSE RAdd(RSum(s, n - 1), s[n])

\* x**0.5, kept as the value under the root; its square is that value when
\* the value is not negative.
Sqrt(x) == [sqrt_of |-> x]

\* sub - np.mean(sub,axis=0): each column minus its mean over the rows.
AfterSubtraction(sub) ==
    LET rows == Len(sub)
        mean == [i \in 1..Len(sub[1]) |->
                    RDiv(RSum([r \in 1..rows |-> RInt(sub[r][i])], rows), RInt(rows))]
    IN  [r \in 1..rows |-> [i \in 1..Len(sub[1]) |-> RSub(RInt(sub[r][i]), mean[i])]]

\* jackknife_errors: the error of each bin.
jackknife_errors(sub, full, N_sub_vol) ==
    LET after_subtraction == AfterSubtraction(sub)
        squared == [r \in 1..Len(sub) |-> [i \in 1..Len(sub[1]) |->
                        RMul(after_subtraction[r][i], after_subtraction[r][i])]]
        error2 == [i \in 1..Len(sub[1]) |->
                        RMul(RDiv(RInt(N_sub_vol - 1), RInt(N_sub_vol)),
                             RSum([r \in 1..Len(sub) |-> squared[r][i]], Len(sub)))]
    IN  [i \in 1..Len(sub[1]) |-> Sqrt(error2[i])]

\* covariance_matrix with the factor computed by floor division.
covariance_matrixFloorDiv(sub, full, N_sub_vol) ==
    LET Nr == Len(full)
        after_subtraction == AfterSubtraction(sub)
    IN  [i \in 1..Nr |-> [j \in 1..Nr |->
            RMul(RInt((N_sub_vol - 1) \div N_sub_vol),
                 RSum([k \in 1..N_sub_vol |-> RMul(after_subtraction[k][i], after_subtraction[k][j])],
                      N_sub_vol))]]

\* covariance_matrix: the loops over i, j in range(Nr) and k in range(N_sub_vol).
covariance_matrix(sub, full, N_sub_vol) ==
    LET Nr == Len(full)
        after_subtraction == AfterSubtraction(sub)
    IN  [i \in 1..Nr |-> [j \in 1..Nr |->
            RMul(RDiv(RInt(N_sub_vol - 1), RInt(N_sub_vol)),
                 RSum([k \in 1..N_sub_vol |-> RMul(after_subtraction[k][i], after_subtraction[k][j])],
                      N_sub_vol))]]

\* The estimates of the resamples (N_sub_vol rows, one column per bin) and of
\* the full sample (of which only the number of bins is used).
covariance_matrixInputs ==
    UNION {[fn : {"covariance_matrix"},
            N_sub_vol : {N},
            sub : [1..N -> [1..nb -> XiValues]],
            full : {[i \in 1..nb |-> 1]}] : N \in 1..MaxSubvol, nb \in 1..2}

\* xi_11_err and xi_11_cov of tpcf_jackknife.
ApplyCovariance ==
    Apply("covariance_matrix",
          Return([error |-> jackknife_errors(args.sub, args.full, args.N_sub_vol),
                  cov |-> covariance_matrix(args.sub, args.full, args.N_sub_vol)]))

(***************************************************************************)
(* tpcf_jackknife: TP_estimator on the counts of the resamples             *)
(***************************************************************************)
\* M.T for a 2-D array M given as the sequence of its rows.
Transpose(M) == [j \in 1..Len(M[1]) |-> [i \in 1..Len(M) |-> M[i][j]]]

\* TP_estimator of tpcf_jackknife on the counts of the resamples: DD, DR, RR
\* of N_sub_vol rows and one column per bin, ND1, ND2, NR1, NR2 of one entry
\* per resample.  (DD/RR).T has one row per bin, which the vector 1.0/factor
\* multiplies along its last axis, and "return xi.T" turns it back; the
\* Hamilton branch computes xi without transposing and returns xi.T as well.
TP_estimatorJk(DD, DR, RR, ND1, ND2, NR1, NR2, estimator) ==
    LET at(r, i) == TP_estimator(DD[r][i], DR[r][i], RR[r][i],
                                 ND1[r], ND2[r], NR1[r], NR2[r], estimator)
        xi == IF estimator = "Hamilton"
              THEN [r \in 1..Len(DD) |-> [i \in 1..Len(DD[1]) |-> EvalTP_jk(at(r, i))]]
              ELSE [i \in 1..Len(DD[1]) |-> [r \in 1..Len(DD) |-> EvalTP_jk(at(r, i))]]
    IN  Transpose(xi)

\* The counts of N_sub_vol resamples in one or two bins, all positive, and the
\* sizes of the resamples.
TP_estimatorJkInputs ==
    UNION {[fn : {"TP_estimator_jk"},
            N_sub_vol : {N},
            DD : [1..N -> [1..nb -> 1..2]],
            DR : {[r \in 1..N |-> [i \in 1..nb |-> r + i]]},
            RR : {[r \in 1..N |-> [i \in 1..nb |-> 1 + r * i]]},
            ND1 : {[r \in 1..N |-> r]},
            ND2 : {[r \in 1..N |-> r], [r \in 1..N |-> r + 1]},
            NR : {[r \in 1..N |-> r + 2]},
            estimator : {estimators[e] : e \in 1..Len(estimators)}]
           : N \in 1..MaxSubvol, nb \in 1..2}

\* xi_11_sub and xi_12_sub of tpcf_jackknife.
ApplyTP_estimatorJk ==
    Apply("TP_estimator_jk",
          Return(TP_estimatorJk(args.DD, args.DR, args.RR, args.ND1, args.ND2, args.NR, args.NR,
                                args.estimator)))

(***************************************************************************)
(* tpcf_jackknife: subvolume labels and numbers                            *)
(***************************************************************************)
\* One point of a sample with its coordinates, the box and the subdivision:
\* coordinates from 0 to Lbox inclusive, cells of integer and of fractional
\* size.
get_subvolume_labelsInputs ==
    UNION {[fn : {"get_subvolume_labels"},
            Lbox : {L},
            Nsub : [1..3 -> 1..2],
            x : {c \in [1..3 -> 0..5] : \A d \in 1..3 : c[d] <= L[d]}]
           : L \in {<<4, 4, 4>>, <<3, 5, 2>>}}

\* The label get_subvolume_labels gives one point; the indexing of inds raises
\* IndexError when a cell index is out of range.
ApplySubvolumeLabels ==
    LET j == SubvolumeLabel(args.x, args.Lbox, args.Nsub)
    IN  Apply("get_subvolume_labels", IF j = 0 THEN Raise("IndexError") ELSE Return(j))

\* The distinct values of S in increasing order.
SortedValues(S) ==
    CHOOSE s \in [1..Cardinality(S) -> S] : \A i, j \in 1..Cardinality(S) : i < j => s[i] < s[j]

\* np.unique(temp, return_counts=True): the sorted distinct values and the
\* number of occurrences of each.
NpUnique(temp) ==
    LET values == SortedValues({temp[i] : i \in 1..Len(temp)})
    IN  [labels |-> values,
         N |-> [i \in 1..Len(values) |-> Cardinality({k \in 1..Len(temp) : temp[k] = values[i]})]]

\* get_subvolume_numbers without the place holder for every label.
get_subvolume_numbersNoPlaceHolder(j_index, N_sub_vol) == NpUnique(j_index).N

\* get_subvolume_numbers: every label is appended once to the labels of the
\* points, the occurrences are counted, and the appended one is taken off.
get_subvolume_numbers(j_index, N_sub_vol) ==
    LET temp == j_index \o Arange(1, N_sub_vol + 1)
        N == NpUnique(temp).N
    IN  [i \in 1..Len(N) |-> N[i] - 1]

\* The labels of the points of a sample, drawn from 1..N_sub_vol.
get_subvolume_numbersInputs ==
    UNION {[fn : {"get_subvolume_numbers"},
            N_sub_vol : {N},
            j_index : UNION {[1..n -> 1..N] : n \in 1..MaxLen}] : N \in 1..MaxSubvol}

\* "N1_subs = get_subvolume_numbers(j_index_1,N_sub_vol)" and
\* "N1_subs = N1 - N1_subs" with N1 = len(sample1); the same for sample2 and
\* the randoms.
ApplySubvolumeNumbers ==
    LET N1 == Len(args.j_index)
        N1_subs == get_subvolume_numbers(args.j_index, args.N_sub_vol)
    IN  Apply("get_subvolume_numbers",
              Return([numbers |-> N1_subs,
                      N1_subs |-> [r \in 1..Len(N1_subs) |-> N1 - N1_subs[r]]]))

(***************************************************************************)
(* tpcf and redshift_space_tpcf: the analytic random counts                *)
(*                                                                         *)
(* A volume is kept as an integer multiple of its coefficient: the bin     *)
(* edges are integers here, pi**(k/2.0)/gamma(k/2.0+1.0) for a k-ball and  *)
(* pi for a cylinder are kept as symbols.                                  *)
(***************************************************************************)
RECURSIVE Pow(_, _)
\* R**k
Pow(R, k) == IF k = 0 THEN 1 ELSE R * Pow(R, k - 1)

RECURSIVE Prod(_)
\* period.prod()
Prod(s) == IF s = <<>> THEN 1 ELSE Head(s) * Prod(Tail(s))

\* pi**(k/2.0)/gamma(k/2.0+1.0): the exponent of pi and the argument of
\* gamma, both times 2.
BallCoefficient(k) == [pi_exponent_times_2 |-> k, gamma_argument_times_2 |-> k + 2]

\* pi, that is pi**(2/2)/gamma(0/2+1)
CylinderCoefficient == [pi_exponent_times_2 |-> 2, gamma_argument_times_2 |-> 2]

\* nball_volume(R,k) for an array R, in units of BallCoefficient(k)
nball_volume(R, k) == [i \in 1..Len(R) |-> Pow(R[i], k)]

\* cylinder_volume(R,h) = pi*np.outer(R**2.0,h), in units of pi
cylinder_volume(R, h) == [i \in 1..Len(R) |-> [j \in 1..Len(h) |-> Pow(R[i], 2) * h[j]]]

\* np.diff of a 1-D array
NpDiff(s) == [i \in 1..(Len(s) - 1) |-> s[i + 1] - s[i]]

\* np.diff(M, axis=0)
NpDiffAxis0(M) == [i \in 1..(Len(M) - 1) |-> [j \in 1..Len(M[i]) |-> M[i + 1][j] - M[i][j]]]

\* array * scalar and scalar * array for an array of dim dimensions
ArrTimes(A, q, dim) ==
    IF dim = 1 THEN [i \in 1..Len(A) |-> RMul(RInt(A[i]), q)]
    ELSE [i \in 1..Len(A) |-> [j \in 1..Len(A[i]) |-> RMul(RInt(A[i][j]), q)]]

TimesArr(n, A, dim) ==
    IF dim = 1 THEN [i \in 1..Len(A) |-> RMul(RInt(n), A[i])]
    ELSE [i \in 1..Len(A) |-> [j \in 1..Len(A[i]) |-> RMul(RInt(n), A[i][j])]]

\* The analytic random counts without the factor N1 of D1R.
AnalyticRandomsNoN1(dv, dim, s1, s2, per) ==
    LET global_volume == Prod(per)
        N1 == Len(s1.rows)
        rho1 == RDiv(RInt(N1), RInt(global_volume))
        D1R == ArrTimes(dv, rho1, dim)
    IN  IF NpAllEqual(s1, s2)
        THEN [D1R |-> D1R, D2R |-> <<>>, RR |-> D1R]
        ELSE LET N2 == Len(s2.rows)
                 rho2 == RDiv(RInt(N2), RInt(global_volume))
                 NR == N1 * N2
                 rhor == RDiv(RInt(NR), RInt(global_volume))
             IN  [D1R |-> D1R, D2R |-> TimesArr(N2, ArrTimes(dv, rho2, dim), dim),
                  RR |-> ArrTimes(dv, rhor, dim)]

\* random_counts, "PBCs and no randoms--calculate randoms analytically", from
\* the volumes dv of the bins (an array of dim dimensions): D1R, D2R (<<>> for
\* None) and RR.
AnalyticRandoms(dv, dim, s1, s2, per) ==
    LET global_volume == Prod(per)
        N1 == Len(s1.rows)
        rho1 == RDiv(RInt(N1), RInt(global_volume))
        D1R == TimesArr(N1, ArrTimes(dv, rho1, dim), dim)
    IN  IF NpAllEqual(s1, s2)
        THEN [D1R |-> D1R, D2R |-> <<>>, RR |-> D1R]
        ELSE LET N2 == Len(s2.rows)
                 rho2 == RDiv(RInt(N2), RInt(global_volume))
                 NR == N1 * N2
                 rhor == RDiv(RInt(NR), RInt(global_volume))
             IN  [D1R |-> D1R, D2R |-> TimesArr(N2, ArrTimes(dv, rho2, dim), dim),
                  RR |-> ArrTimes(dv, rhor, dim)]

\* The second sample of a call with no randoms: sample1 itself or another one.
OtherSamples(s1) == {s1, Sample(s1.k, <<2>>), Sample(s1.k, <<2, 1>>)}

\* Calls of random_counts in the analytic branch, for a period of finite
\* entries that the bin edges have been checked against.
random_countsCalls(entry, per) ==
    UNION {[fn : {"random_counts"},
            entry : {entry},
            sample1 : {s1},
            sample2 : OtherSamples(s1),
            rbins : IF entry = "tpcf"
                    THEN {b \in BinEdges : 2 * SeqMax(b) <= SeqMin(per)}
                    ELSE {b \in BinEdges : 2 * SeqMax(b) <= SeqMin(SubSeq(per, 1, 2))},
            pi_bins : IF entry = "tpcf" THEN {<<>>}
                      ELSE {b \in BinEdges : 2 * SeqMax(b) <= per[3]},
            period : {per}]
           : s1 \in {Sample(Len(per), Ramp(n)) : n \in 1..MaxLen}}

random_countsInputs ==
    UNION {random_countsCalls("tpcf", per) : per \in [1..2 -> {4, 8, 12}] \cup [1..3 -> {4, 8, 12}]}
    \cup UNION {random_countsCalls("redshift_space_tpcf", per) : per \in [1..3 -> {4, 8, 12}]}

\* random_counts of tpcf (dv the volumes of the shells) and of
\* redshift_space_tpcf (dv the volumes of the annuli) with PBCs and no randoms.
ApplyAnalyticRandoms ==
    Apply("random_counts",
          IF args.entry = "tpcf"
          THEN LET k == args.sample1.k
                   dv == NpDiff(nball_volume(args.rbins, k))
               IN  Return([unit |-> BallCoefficient(k),
                           counts |-> AnalyticRandoms(dv, 1, args.sample1, args.sample2, args.period)])
          ELSE LET dv == NpDiffAxis1(NpDiffAxis0(cylinder_volume(args.rbins, args.pi_bins)))
               IN  Return([unit |-> CylinderCoefficient,
                           counts |-> AnalyticRandoms(dv, 2, args.sample1, args.sample2, args.period)]))

\* TP_estimator of tpcf in one bin, on counts that are not whole numbers (the
\* analytic random counts): "(1.0/factor)*DD/RR - 1.0" and so on, left to right.
TP_estimatorOfBin(DD, DR, RR, ND1, ND2, NR1, NR2, estimator) ==
    LET one == RInt(1)
        two == RInt(2)
    IN  IF estimator = "Natural" THEN
            LET factor == RDiv(RInt(ND1 * ND2), RInt(NR1 * NR2))
            IN  RSub(RDiv(RMul(RDiv(one, factor), DD), RR), one)
        ELSE IF estimator = "Davis-Peebles" THEN
            LET factor == RDiv(RInt(ND1 * ND2), RInt(ND1 * NR2))
            IN  RSub(RDiv(RMul(RDiv(one, factor), DD), DR), one)
        ELSE IF estimator = "Hewett" THEN
            LET factor1 == RDiv(RInt(ND1 * ND2), RInt(NR1 * NR2))
                factor2 == RDiv(RInt(ND1 * NR2), RInt(NR1 * NR2))
            IN  RSub(RDiv(RMul(RDiv(one, factor1), DD), RR),
                     RDiv(RMul(RDiv(one, factor2), DR), RR))
        ELSE IF estimator = "Hamilton" THEN
            RSub(RDiv(RMul(DD, RR), RMul(DR, DR)), one)
        ELSE
            LET factor1 == RDiv(RInt(ND1 * ND2), RInt(NR1 * NR2))
                factor2 == RDiv(RInt(ND1 * NR2), RInt(NR1 * NR2))
            IN  RAdd(RSub(RDiv(RMul(RDiv(one, factor1), DD), RR),
                          RDiv(RMul(RMul(RDiv(one, factor2), two), DR), RR)), one)

\* The cross pair counts pair_counts may hand to the estimator, in the unit of
\* the shell volumes: in each bin no pair, or N1*N2*dv/global_volume pairs.
CrossCounts(dv, N1, N2, global_volume) ==
    {[i \in 1..Len(dv) |-> IF u[i] THEN Rat(N1 * N2 * dv[i], global_volume) ELSE RInt(0)]
        : u \in [1..Len(dv) -> BOOLEAN]}

\* Calls of tpcf with a period, no randoms, two distinct samples and
\* do_cross=True, at the point where the pair counts D1D2 are known.
tpcf_crossInputs ==
    UNION {UNION {[fn : {"tpcf_cross"},
                   sample1 : {Sample(Len(per), Ramp(n))},
                   sample2 : {Sample(Len(per), IF N2 = 1 THEN <<2>> ELSE <<2, 1>>)},
                   rbins : {b},
                   period : {per},
                   D1D2 : CrossCounts(NpDiff(nball_volume(b, Len(per))), n, N2, Prod(per)),
                   estimator : {estimators[i] : i \in 1..Len(estimators)}]
                  : n \in 1..MaxLen, N2 \in 1..2,
                    b \in {e \in BinEdges : 2 * SeqMax(e) <= SeqMin(per)}}
           : per \in {<<8, 8>>, <<4, 8>>, <<4, 4, 4>>}}

\* tpcf from random_counts to the return of the cross-correlation: randoms is
\* None, so N1 = N2 = NR = 1.0, and
\* xi_12 = TP_estimator(D1D2,D1R,RR,N1,N2,NR,NR,estimator).
ApplyTpcfCross ==
    Apply("tpcf_cross",
          LET dv == NpDiff(nball_volume(args.rbins, args.sample1.k))
              c == AnalyticRandoms(dv, 1, args.sample1, args.sample2, args.period)
          IN  Return([i \in 1..Len(dv) |->
                        TP_estimatorOfBin(args.D1D2[i], c.D1R[i], c.RR[i], 1, 1, 1, 1,
                                          args.estimator)]))

(***************************************************************************)
(* The specification of the numerical functions                            *)
(***************************************************************************)
FnInit ==
    /\ pc = "input"
    /\ \/ args \in TP_estimatorInputs
       \/ args \in TP_estimatorBinsInputs
       \/ args \in jnpair_countsInputs
       \/ args \in jrandom_countsInputs
       \/ args \in TP_estimatorJkInputs
       \/ args \in covariance_matrixInputs
       \/ args \in get_subvolume_labelsInputs
       \/ args \in get_subvolume_numbersInputs
       \/ args \in random_countsInputs
       \/ args \in tpcf_crossInputs
    /\ sample1 = None
    /\ sample2 = None
    /\ randoms = None
    /\ period = <<>>
    /\ PBCs = FALSE
    /\ inds = NoInds
    /\ labels = NoLabels
    /\ counts = NoCounts
    /\ calls = <<>>
    /\ result = Running
    /\ model = NoModel
    /\ heap = NoHeap

FnNext ==
    \/ ApplyTP_estimator
    \/ ApplyTP_estimatorBins
    \/ ApplyJnpairCounts
    \/ ApplyJrandomCounts
    \/ ApplyTP_estimatorJk
    \/ ApplyCovariance
    \/ ApplySubvolumeLabels
    \/ ApplySubvolumeNumbers
    \/ ApplyAnalyticRandoms
    \/ ApplyTpcfCross

FnSpec == FnInit /\ [][FnNext]_vars

(***************************************************************************)
(* empirical_models/factories/model_factory_template.py                   *)
(*                                                                         *)
(* ModelFactory.populate_mock on one model instance.  A keyword argument   *)
(* is <<v>> when given and <<>> when absent; redshifts are counted in      *)
(* hundredths.  HaloCatalog, the mock factory and mock.populate belong to  *)
(* other modules: each either raises or returns, and the HaloCatalog      *)
(* constructor returns some catalogue.                                     *)
(***************************************************************************)
default_redshift == 0

default_simname == "bolshoi"

default_halo_finder == "rockstar"

\* 0.05
redshift_tolerance == 5

Redshifts == {0, 5, 6}

HaloCatalogs ==
    [redshift : Redshifts, simname : {"bolshoi", "multidark"}, halo_finder : {"rockstar", "bdm"}]

Keyword(S) == {<<>>} \cup {<<v>> : v \in S}

populate_mockInputs ==
    [fn : {"populate_mock"},
     redshift : Keyword({0, 6}),
     simname : Keyword({"multidark"}),
     halo_finder : Keyword({"bdm"}),
     halocat : Keyword(HaloCatalogs)]

Abs(x) == IF x < 0 THEN 0 - x ELSE x

\* "'simname' in kwargs ... elif 'halocat' in kwargs ... else default"
Requested(kwargs, name, default) ==
    IF kwargs[name] # <<>> THEN kwargs[name][1]
    ELSE IF kwargs.halocat # <<>> THEN kwargs.halocat[1][name]
    ELSE default

\* test_consistency_with_existing_mock without the comparison of the simname.
test_consistency_with_existing_mockNoSimname(kwargs, mock) ==
    IF Abs(Requested(kwargs, "redshift", default_redshift) - mock.halocat.redshift)
            > redshift_tolerance
    THEN "HalotoolsError"
    ELSE IF Requested(kwargs, "halo_finder", default_halo_finder) # mock.halocat.halo_finder
    THEN "HalotoolsError"
    ELSE "ok"

\* "ok", or the exception raised.
test_consistency_with_existing_mock(kwargs, mock) ==
    IF Abs(Requested(kwargs, "redshift", default_redshift) - mock.halocat.redshift)
            > redshift_tolerance
    THEN "HalotoolsError"
    ELSE IF Requested(kwargs, "simname", default_simname) # mock.halocat.simname
    THEN "HalotoolsError"
    ELSE IF Requested(kwargs, "halo_finder", default_halo_finder) # mock.halocat.halo_finder
    THEN "HalotoolsError"
    ELSE "ok"

\* A call made to another module, on the mock object of the given identity
\* (0 when the call is a constructor).
Made(f, id) == [f |-> f, on |-> id]

\* mock.populate() returns None or raises.
PopulateResults == {Return(<<>>), Raise("Exception")}

\* populate_mock of the instance self: the outcomes [model, result, calls] of
\* the call, model being the instance afterwards.
populate_mock(self, kwargs) ==
    IF self.mock # <<>> THEN
        IF test_consistency_with_existing_mock(kwargs, self.mock[1]) # "ok"
        THEN {[model |-> self, result |-> Raise("HalotoolsError"), calls |-> <<>>]}
        ELSE {[model |-> self, result |-> r, calls |-> <<Made("populate", self.mock[1].id)>>]
                : r \in PopulateResults}
    ELSE
        LET made == IF kwargs.halocat # <<>> THEN <<>> ELSE <<Made("HaloCatalog", 0)>>
            halocats == IF kwargs.halocat # <<>> THEN {kwargs.halocat[1]} ELSE HaloCatalogs
            id == self.created + 1
            bound(h) == [self EXCEPT !.mock = <<[id |-> id, halocat |-> h]>>, !.created = id]
        IN  (IF kwargs.halocat # <<>> THEN {}
             ELSE {[model |-> self, result |-> Raise("Exception"), calls |-> made]})
            \cup UNION {
                IF self.redshift # <<>> /\ Abs(self.redshift[1] - h.redshift) > redshift_tolerance
                THEN {[model |-> self, result |-> Raise("HalotoolsError"), calls |-> made]}
                ELSE {[model |-> self, result |-> Raise("Exception"),
                       calls |-> made \o <<Made("mock_factory", 0)>>]}
                     \cup {[model |-> bound(h), result |-> r,
                            calls |-> made \o <<Made("mock_factory", 0), Made("populate", id)>>]
                            : r \in PopulateResults}
                : h \in halocats}

\* A model instance after construction: no mock, and a redshift attribute
\* when the subclass has set one.
FactoryInit ==
    /\ pc = "ready"
    /\ args = NoArgs
    /\ sample1 = None
    /\ sample2 = None
    /\ randoms = None
    /\ period = <<>>
    /\ PBCs = FALSE
    /\ inds = NoInds
    /\ labels = NoLabels
    /\ counts = NoCounts
    /\ calls = <<>>
    /\ result = Running
    /\ model \in [mock : {<<>>}, redshift : Keyword(Redshifts), created : {0}]
    /\ heap = NoHeap

\* model.populate_mock with keyword arguments kwargs
PopulateMock ==
    /\ pc = "ready"
    /\ \E kwargs \in populate_mockInputs : \E o \in populate_mock(model, kwargs) :
        /\ args' = kwargs
        /\ model' = o.model
        /\ result' = o.result
        /\ calls' = o.calls
    /\ UNCHANGED <<pc, sample1, sample2, randoms, period, PBCs, inds, labels, counts, heap>>

FactoryNext == PopulateMock

FactorySpec == FactoryInit /\ [][FactoryNext]_vars

(***************************************************************************)
(* HodModelArchitect.customize_model                                       *)
(*                                                                         *)
(* A dictionary is an object: heap[id] is its content, a function from     *)
(* keys to values.  model_dictionary maps a gal_type to the id of the      *)
(* dictionary of that gal_type, which maps a galprop_name to a component.  *)
(* Components are not modified by the call and are kept as values.         *)
(***************************************************************************)
\* Thresholds of the occupation components (absolute magnitudes, negated).
Thresholds == {20, 21}

\* A component model: its attributes.  made tells the components of the
\* baseline from the ones passed to customize_model.
Component(gal_type, galprop_name, threshold, made) ==
    [gal_type |-> gal_type, galprop_name |-> galprop_name, threshold |-> threshold, made |-> made]

\* An argument that has no gal_type and no galprop_name attribute.
NotAComponent == [name |-> "not a component"]

\* The dictionary of one gal_type in a baseline model.
BaselineOf(g, thr) ==
    [galprop_name \in {"occupation", "profile"} |->
        Component(g, galprop_name, IF galprop_name = "occupation" THEN thr ELSE 0, "baseline")]

\* The heaps a baseline model can be built on: object 1 is model_dictionary,
\* objects 2 and 3 the dictionaries of its gal_types.
BaselineHeaps ==
    {<<[centrals |-> 2], BaselineOf("centrals", thr)>> : thr \in Thresholds}
    \cup {<<[centrals |-> 2, satellites |-> 3], BaselineOf("centrals", thr), BaselineOf("satellites", thr)>>
            : thr \in Thresholds}

\* The positional arguments of customize_model: up to two new components.
NewComponents ==
    {Component("centrals", "occupation", thr, "new") : thr \in Thresholds}
    \cup {Component("satellites", "occupation", 20, "new"),
          Component("satellites", "profile", 0, "new"),
          Component("centrals", "quiescent", 0, "new"),
          NotAComponent}

customize_modelInputs ==
    [fn : {"customize_model"},
     args : {<<>>} \cup [1..1 -> NewComponents] \cup [1..2 -> NewComponents],
     baseline_model : Keyword({[model_dictionary |-> 1]})]

\* d[key] = value on a dictionary content d.
SetItem(d, key, value) ==
    [x \in DOMAIN d \cup {key} |-> IF x = key THEN value ELSE d[x]]

\* copy(d) for a dictionary: a new object with the same keys and the same
\* values; the values that are dictionaries are the same objects.
ShallowCopy(h, id) == [heap |-> Append(h, h[id]), id |-> Len(h) + 1]

\* What "HodModelFactory(new_dictionary)" can do.  The name is neither
\* defined nor imported by name in model_factory_template.py: it is bound
\* only if the star import of custom_exceptions provides it, NameError
\* otherwise; the constructor itself builds the model or raises.
HodModelFactory(new_dictionary) ==
    {Raise("NameError"), Raise("Exception"), Return(<<[model_dictionary |-> new_dictionary]>>)}

\* The loop "for new_component in args" from argument i on, and the return.
\* h is the heap so far, warned the warnings so far.  The outcomes are
\* [heap, result, calls].
RECURSIVE SwapIn(_, _, _, _, _, _)
SwapIn(h, baseline_dictionary, new_dictionary, a, i, warned) ==
    IF i > Len(a)
    THEN {[heap |-> h, result |-> r, calls |-> warned] : r \in HodModelFactory(new_dictionary)}
    ELSE LET new_component == a[i]
             stop(e) == {[heap |-> h, result |-> Raise(e), calls |-> warned]}
         IN  IF ~({"gal_type", "galprop_name"} \subseteq DOMAIN new_component)
             THEN stop("HalotoolsError")
             ELSE LET gal_type == new_component.gal_type
                      galprop_name == new_component.galprop_name
                      occupation == galprop_name = "occupation"
                  IN  IF occupation /\ gal_type \notin DOMAIN h[baseline_dictionary]
                      THEN stop("KeyError")
                      ELSE IF occupation
                               /\ galprop_name \notin DOMAIN h[h[baseline_dictionary][gal_type]]
                      THEN stop("KeyError")
                      ELSE IF gal_type \notin DOMAIN h[new_dictionary]
                      THEN stop("KeyError")
                      ELSE LET old_component == h[h[baseline_dictionary][gal_type]][galprop_name]
                               w == IF occupation /\ new_component.threshold # old_component.threshold
                                    THEN Append(warned, [f |-> "warn", gal_type |-> gal_type])
                                    ELSE warned
                               inner == h[new_dictionary][gal_type]
                           IN  SwapIn([h EXCEPT ![inner] = SetItem(@, galprop_name, new_component)],
                                      baseline_dictionary, new_dictionary, a, i + 1, w)

\* HodModelArchitect.customize_model with positional arguments a and keyword
\* arguments kwargs, on the heap h.
customize_model(h, a, kwargs) ==
    IF kwargs.baseline_model = <<>>
    THEN {[heap |-> h, result |-> Raise("HalotoolsError"), calls |-> <<>>]}
    ELSE LET baseline_dictionary == kwargs.baseline_model[1].model_dictionary
             c == ShallowCopy(h, baseline_dictionary)
         IN  SwapIn(c.heap, baseline_dictionary, c.id, a, 1, <<>>)

ArchitectInit ==
    /\ pc = "ready"
    /\ args = NoArgs
    /\ sample1 = None
    /\ sample2 = None
    /\ randoms = None
    /\ period = <<>>
    /\ PBCs = FALSE
    /\ inds = NoInds
    /\ labels = NoLabels
    /\ counts = NoCounts
    /\ calls = <<>>
    /\ result = Running
    /\ model = [model_dictionary |-> 1]
    /\ heap \in BaselineHeaps

\* HodModelArchitect.customize_model(..., baseline_model=model) is called.
CustomizeModel ==
    /\ pc = "ready"
    /\ \E a \in customize_modelInputs : \E o \in customize_model(heap, a.args, a) :
        /\ args' = a
        /\ heap' = o.heap
        /\ result' = o.result
        /\ calls' = o.calls
    /\ pc' = "done"
    /\ UNCHANGED <<sample1, sample2, randoms, period, PBCs, inds, labels, counts, model>>

ArchitectNext == CustomizeModel

ArchitectSpec == ArchitectInit /\ [][ArchitectNext]_vars

(***************************************************************************)
(* Vocabulary of the properties                                            *)
(***************************************************************************)
Finished == pc = "done"

Raised(e) == Finished /\ result.kind = "raise" /\ result.exc = e

Returned == Finished /\ result.kind = "return"

\* sample2 as the entry point sees it: the caller's sample1 when absent.
InSample2 == IF args.sample2 = None THEN args.sample1 ELSE args.sample2

\* The caller's sample2 is absent or elementwise equal to sample1.
SamplesEqualAtCall == args.sample2 = None \/ NpAllEqual(args.sample1, args.sample2)

NoSampleExceeds ==
    /\ Len(args.sample1.rows) <= args.max_sample_size
    /\ Len(InSample2.rows) <= args.max_sample_size

AutoOfSample1(x) == x.name = "xi_11" /\ x.xi.DD = "D1D1"

CrossOfSamples(x) == x.name = "xi_12" /\ x.xi.DD = "D1D2"

AutoOfSample2(x) == x.name = "xi_22" /\ x.xi.DD = "D2D2"

PeriodGiven == args.period.tag # "none"

PeriodShapeOk == args.period.tag = "vector" => Len(args.period.v) = args.sample1.k

IsMixed(v) == (\E i \in 1..Len(v) : v[i] = Inf) /\ (\E i \in 1..Len(v) : v[i] # Inf)

AfterChecks == pc \in {"labels", "pairs", "randoms", "dispatch", "integrate"} \/ (Finished /\ result.kind # "raise")

(***************************************************************************)
(* C1..C10                                                                 *)
(***************************************************************************)

C2_DistinctSamplesFanOut ==
    (Finished /\ args.fn \in {"tpcf", "redshift_space_tpcf"} /\ ~SamplesEqualAtCall
        /\ result.kind # "raise" /\ args.do_cross)
    => IF args.do_auto
       THEN /\ Len(result.value) = 3
            /\ AutoOfSample1(result.value[1])
            /\ CrossOfSamples(result.value[2])
            /\ AutoOfSample2(result.value[3])
       ELSE Len(result.value) = 1 /\ CrossOfSamples(result.value[1])

\* C3 (as claimed): for two distinct samples, a call of any entry point with
\* do_auto = do_cross = False ends with a ValueError.
C3_BothFalseRejected ==
    (Finished /\ ~SamplesEqualAtCall /\ ~NpAllEqual(sample1, sample2)
        /\ ~args.do_auto /\ ~args.do_cross)
    => Raised("ValueError")

\* C4 (as claimed): an estimator name outside the five supported ones makes the
\* call end with a ValueError, before any pair-count call.
C4_UnknownEstimatorRejected ==
    (Finished /\ ~IsSupported(args.estimator)) => (Raised("ValueError") /\ calls = <<>>)

\* C5: in tpcf, tpcf_jackknife and redshift_space_tpcf, a call that ends with
\* the failure of an argument check has made no pair-count call.
C5_ChecksBeforeCounting ==
    (args.fn \in {"tpcf", "tpcf_jackknife", "redshift_space_tpcf"}
        /\ (Raised("ValueError") \/ Raised("AttributeError")))
    => calls = <<>>

C5_Witness ==
    /\ Raised("ValueError") /\ args.fn = "tpcf" /\ calls = <<>>
    /\ PBCs /\ IsMixed(period) /\ 2 * SeqMax(args.rbins) <= SeqMin(period)
    /\ IsSupported(args.estimator) /\ sample1.k = sample2.k

\* C6: once the period has been processed for k-dimensional samples: an absent
\* period is k infinities and the call is non-periodic, a scalar L is k copies
\* of L, a vector of length k is used as given, and a vector of another length
\* has ended the call with a ValueError.
C6_PeriodNormalised ==
    pc \notin {"idle", "period"} =>
        LET k == args.sample1.k
            p == args.period
        IN  /\ p.tag = "none" => (period = [i \in 1..k |-> Inf] /\ ~PBCs)
            /\ p.tag = "scalar" => (period = [i \in 1..k |-> p.v[1]] /\ PBCs)
            /\ (p.tag = "vector" /\ Len(p.v) = k) => (period = p.v /\ PBCs)
            /\ (p.tag = "vector" /\ Len(p.v) # k) => (Raised("ValueError") /\ calls = <<>>)

C6_Witness ==
    /\ Raised("ValueError") /\ args.period.tag = "vector"
    /\ Len(args.period.v) = 2 /\ args.sample1.k = 3

\* The largest bin edge of the call, over rbins (rp_bins) and pi_bins.
MaxEdge == SeqMax(args.rbins \o args.pi_bins)

\* A bin edge exceeds half the period of the axes it is measured along: all
\* axes for the radial bins of tpcf and tpcf_jackknife; the first two axes for
\* rp_bins and the third for pi_bins in redshift_space_tpcf and wp.
EdgeExceedsAxisPeriod ==
    IF args.fn \in {"redshift_space_tpcf", "wp"}
    THEN \/ 2 * SeqMax(args.rbins) > SeqMin(SubSeq(period, 1, 2))
         \/ 2 * SeqMax(args.pi_bins) > period[3]
    ELSE 2 * SeqMax(args.rbins) > SeqMin(period)

\* C7 (as claimed): for every entry point, every call with a period that gets
\* past the argument checks has its largest bin edge (radial, rp or pi) at most
\* half the minimum period over all dimensions.
C7_EdgesWithinHalfMinPeriod ==
    (AfterChecks /\ PeriodGiven) => 2 * MaxEdge <= SeqMin(period)

\* C7 (amended): a call with a period in which a bin edge exceeds half the
\* period of its own axes never gets past the argument checks and ends with a
\* ValueError: the radial edges against the minimum period over all dimensions
\* (tpcf, tpcf_jackknife), the rp edges against the smaller of the first two
\* periods and the pi edges against the third (redshift_space_tpcf, wp).
C7_EdgesWithinHalfPeriodPerAxis ==
    (PeriodGiven /\ PeriodShapeOk /\ (AfterChecks \/ Finished) /\ EdgeExceedsAxisPeriod)
    => Raised("ValueError")

C7_Witness ==
    /\ Raised("ValueError") /\ args.fn = "redshift_space_tpcf" /\ PeriodGiven /\ PeriodShapeOk
    /\ ~IsMixed(period) /\ sample1.k = sample2.k
    /\ 2 * SeqMax(args.rbins) <= SeqMin(SubSeq(period, 1, 2))
    /\ 2 * SeqMax(args.pi_bins) > period[3]

\* C8 (as claimed): in tpcf, tpcf_jackknife and redshift_space_tpcf, a period
\* vector with at least one finite and at least one infinite entry makes the
\* call end with a ValueError.
C8_MixedPeriodRejected ==
    (Finished /\ args.fn \in {"tpcf", "tpcf_jackknife", "redshift_space_tpcf"}
        /\ args.period.tag = "vector" /\ IsMixed(args.period.v))
    => Raised("ValueError")

\* C9: in tpcf and redshift_space_tpcf, a call with no period and no randoms
\* makes no pair-count call, never gets past the argument checks and ends with a
\* ValueError; a call with no period and with randoms (samples of the same
\* dimension, a supported estimator) is not rejected and reaches the pair counter.
C9_NoPeriodNeedsRandoms ==
    (pc # "idle" /\ args.fn \in {"tpcf", "redshift_space_tpcf"} /\ ~PeriodGiven) =>
        /\ args.randoms = None =>
            (calls = <<>> /\ ~AfterChecks /\ (Finished => Raised("ValueError")))
        /\ (args.randoms # None /\ args.sample1.k = InSample2.k
                /\ IsSupported(args.estimator) /\ Finished) =>
            (result.kind = "return" /\ calls # <<>>)

C9_Witness ==
    /\ Raised("ValueError") /\ args.fn = "tpcf" /\ ~PeriodGiven /\ args.randoms = None
    /\ args.sample1.k = InSample2.k /\ IsSupported(args.estimator) /\ calls = <<>>

\* now is orig capped at m points: m points at pairwise distinct indices of
\* orig when orig has more than m points, orig itself otherwise.
CappedTo(orig, now, m) ==
    IF Len(orig.rows) > m
    THEN /\ Len(now.rows) = m
         /\ \E ix \in DrawInds(Len(orig.rows), m) : now.rows = Take(orig.rows, ix)
    ELSE now = orig

\* C10 (as claimed): in tpcf and redshift_space_tpcf, every data sample given
\* to the pair counter is one of the caller's samples capped at max_sample_size
\* points (the randoms, which these entry points never cap, are left aside).
C10_SamplesCapped ==
    args.fn \in {"tpcf", "redshift_space_tpcf"} =>
        \A i \in 1..Len(calls) : \A x \in {calls[i].a, calls[i].b} :
            \/ x = args.randoms
            \/ CappedTo(args.sample1, x, args.max_sample_size)
            \/ CappedTo(InSample2, x, args.max_sample_size)

(***************************************************************************)
(* C11..C20                                                                *)
(***************************************************************************)
SampleExceeds == Len(args.sample1.rows) > args.max_sample_size

\* The pair-counter call c counts pairs between two different data samples.
IsCrossCall(c) == c.a # c.b /\ c.a # randoms /\ c.b # randoms

\* The number of arrays one auto-correlation is returned as: the correlation
\* function, and for tpcf_jackknife its covariance matrix as well.
OneAutoLen == IF args.fn = "tpcf_jackknife" THEN 2 ELSE 1

\* C11 (as claimed): when sample2 is absent or equal to sample1 and the sample
\* exceeds max_sample_size, after the down-sampling sample2 is the down-sampled
\* sample1, no pair count between two different data samples has been made,
\* and the call returns exactly one auto-correlation.
C11_DownsampledStaysAuto ==
    (Returned /\ SamplesEqualAtCall /\ SampleExceeds)
    => /\ sample2 = sample1
       /\ \A i \in 1..Len(calls) : ~IsCrossCall(calls[i])
       /\ Len(result.value) = OneAutoLen

\* No index is drawn by the call: no sample (for tpcf_jackknife, nor the
\* randoms) has more than max_sample_size points.
NoDownsampling ==
    /\ NoSampleExceeds
    /\ args.fn = "tpcf_jackknife" => Len(args.randoms.rows) <= args.max_sample_size

\* What a call with arguments a that draws no index ends with: the result, the
\* pair-counter calls and the counts, by the steps of the call in source order.
RunCall(a) ==
    LET s1 == a.sample1
        s2 == IF a.sample2 = None THEN a.sample1 ELSE a.sample2
        jk == a.fn = "tpcf_jackknife"
        p == ProcessPeriod(a.period, s1.k)
        v == IF a.fn = "tpcf"
             THEN ValidateTpcf(a.rbins, s1, s2, a.randoms, p.period, p.PBCs, a.estimator)
             ELSE IF jk
             THEN ValidateJk(Broadcast(a.Nsub, s1.k), a.rbins, s1, s2, p.period, p.PBCs, a.estimator)
             ELSE ValidateRs(a.rbins, a.pi_bins, s1, s2, a.randoms, p.period, p.PBCs, a.estimator)
        req == TP_estimator_requirements(a.estimator)
        l == get_subvolume_labels(s1, s2, a.randoms, Broadcast(a.Nsub, s1.k), Broadcast(a.Lbox, s1.k))
        dd == PairCounts(a.fn, s1, s2)
        rc == IF jk THEN RandomCountsJk(a.fn, s1, s2, a.randoms, req)
              ELSE RandomCounts(a.fn, s1, s2, a.randoms, p.PBCs, req)
        xi == IF jk THEN DispatchJk(NpAllEqual(s2, s1), a.do_auto, a.do_cross, a.estimator)
              ELSE Dispatch(NpAllEqual(s2, s1), a.do_auto, a.do_cross, a.estimator)
        failed(e) == [result |-> Raise(e), calls |-> <<>>, counts |-> NoCounts]
        cs == [D1D1 |-> dd.D1D1, D1D2 |-> dd.D1D2, D2D2 |-> dd.D2D2,
               D1R |-> rc.D1R, D2R |-> rc.D2R, RR |-> rc.RR]
        e == DispatchError(a.fn, NpAllEqual(s2, s1), a.do_auto, a.do_cross, a.estimator, cs,
                           l.N_sub_vol, Len(a.rbins) - 1)
    IN  IF ~p.ok THEN failed("ValueError")
        ELSE IF v # "ok" THEN failed(v)
        ELSE IF ~req.ok THEN failed("ValueError")
        ELSE IF jk /\ ~l.ok THEN failed("IndexError")
        ELSE [result |-> IF e # "ok" THEN Raise(e)
                         ELSE IF a.fn = "wp" THEN WpIntegrate(xi, a) ELSE Return(xi),
              calls |-> dd.calls \o rc.calls,
              counts |-> [D1D1 |-> dd.D1D1, D1D2 |-> dd.D1D2, D2D2 |-> dd.D2D2,
                          D1R |-> rc.D1R, D2R |-> rc.D2R, RR |-> rc.RR]]

Outcome == [result |-> result, calls |-> calls, counts |-> counts]

ClaimedXi(a) ==
    LET f == Rat(a.NR1 * a.NR2, a.ND1 * a.ND2)
        g == Rat(a.NR1 * a.NR2, a.ND1 * a.NR2)
    IN  CASE a.estimator = "Natural" -> RSub(RMul(f, Rat(a.DD, a.RR)), RInt(1))
          [] a.estimator = "Davis-Peebles" -> RSub(RMul(Rat(a.NR2, a.ND2), Rat(a.DD, a.DR)), RInt(1))
          [] a.estimator = "Hewett" -> RSub(RMul(f, Rat(a.DD, a.RR)), RMul(g, Rat(a.DR, a.RR)))
          [] a.estimator = "Hamilton" -> RSub(Rat(a.DD * a.RR, a.DR * a.DR), RInt(1))
          [] a.estimator = "Landy-Szalay" ->
                RAdd(RSub(RMul(f, Rat(a.DD, a.RR)), RMul(RInt(2), RMul(g, Rat(a.DR, a.RR)))), RInt(1))

Applied(f) == pc = "output" /\ args.fn = f

\* C13: for all positive counts and sample sizes, TP_estimator of tpcf and of
\* redshift_space_tpcf return in each bin
\*   Natural        (NR1 NR2)/(ND1 ND2) DD/RR - 1
\*   Davis-Peebles  (NR2/ND2) DD/DR - 1
\*   Hewett         (NR1 NR2)/(ND1 ND2) DD/RR - (NR1 NR2)/(ND1 NR2) DR/RR
\*   Hamilton       DD RR / DR^2 - 1
\*   Landy-Szalay   (NR1 NR2)/(ND1 ND2) DD/RR - 2 (NR1 NR2)/(ND1 NR2) DR/RR + 1
\* and the two copies return the same value.
C13_EstimatorFormulas ==
    (Applied("TP_estimator") /\ IsSupported(args.estimator)) =>
        /\ result.kind = "return"
        /\ REq(result.value[1], ClaimedXi(args))
        /\ REq(result.value[2], ClaimedXi(args))
        /\ REq(result.value[1], result.value[2])

C13_Witness ==
    /\ Applied("TP_estimator") /\ args.estimator = "Landy-Szalay"
    /\ args.DD = 3 /\ args.DR = 2 /\ args.RR = 1
    /\ args.ND1 = 2 /\ args.ND2 = 3 /\ args.NR1 = 3 /\ args.NR2 = 2
    /\ REq(result.value[1], RInt(0 - 2))
    /\ REq(result.value[2], RInt(0 - 2))

\* The counts of channel c given to TP_estimator for the resamples are, for
\* each label r and each bin, the full-sample row of the counter's array minus
\* its row r.
SubIsFullMinusRow(c) ==
    \A r \in 1..Len(c.sub) : \A b \in 1..Len(c.sub[r]) :
        c.sub[r][b] = c.full[b] - c.X[r + 1][b]

\* C14 (as claimed): in tpcf_jackknife, for each subvolume r and each of the
\* channels DD, DR and RR, the count of a bin passed to the estimator for the
\* delete-one resample r is the full-sample count (row 0 of the array the
\* jackknife pair counter returned) minus the count of the pairs touching
\* label r (row r).
C14_DeleteOneCounts ==
    /\ Applied("jnpair_counts") => SubIsFullMinusRow(result.value.DD)
    /\ Applied("jrandom_counts") =>
        (SubIsFullMinusRow(result.value.DR) /\ SubIsFullMinusRow(result.value.RR))

RECURSIVE ISum(_, _)
ISum(s, n) == IF n = 0 THEN 0 ELSE ISum(s, n - 1) + s[n]

\* ((N-1)/N) * sum over r of (x[r,i] - mean_i)(x[r,j] - mean_j) for the N
\* rows of x, with N * (x[r,i] - mean_i) = N x[r,i] - (sum of column i).
ClaimedCov(x, i, j) ==
    LET N == Len(x)
        S(c) == ISum([r \in 1..N |-> x[r][c]], N)
    IN  Rat((N - 1) * ISum([r \in 1..N |-> (N * x[r][i] - S(i)) * (N * x[r][j] - S(j))], N),
            N * N * N)

\* The square of an error returned by jackknife_errors.
Square(e) == e.sqrt_of

\* C15: in tpcf_jackknife, with N the number of subvolumes and xi_sub the
\* N x Nbins array of delete-one estimates, covariance_matrix returns
\* Cov[i,j] = ((N-1)/N) sum_r (xi_sub[r,i] - mean_i)(xi_sub[r,j] - mean_j) for
\* all bins i, j; Cov is symmetric, and for N >= 2 Cov[i,i] is the square of
\* the error jackknife_errors returns for bin i on the same xi_sub.
C15_CovarianceMatrix ==
    Applied("covariance_matrix") =>
        LET cov == result.value.cov
            err == result.value.error
            nb == Len(args.full)
        IN  /\ Len(cov) = nb
            /\ \A i, j \in 1..nb :
                /\ REq(cov[i][j], ClaimedCov(args.sub, i, j))
                /\ REq(cov[i][j], cov[j][i])
            /\ args.N_sub_vol >= 2 =>
                \A i \in 1..nb : Square(err[i]).n >= 0 /\ REq(cov[i][i], Square(err[i]))

C15_Witness ==
    /\ Applied("covariance_matrix") /\ args.N_sub_vol = 2
    /\ args.sub = <<(<<0, 1>>), (<<1, 3>>)>>
    /\ REq(result.value.cov[1][2], Rat(1, 2))
    /\ REq(result.value.cov[2][1], Rat(1, 2))
    /\ REq(result.value.cov[2][2], RInt(1))
    /\ REq(Square(result.value.error[2]), RInt(1))

\* floor(x / (L/n)) for 0 <= x < L: the i with i (L/n) <= x < (i+1) (L/n).
FloorCell(x, L, n) == CHOOSE i \in 0..(n - 1) : i * L <= x * n /\ x * n < (i + 1) * L

InsideBox(x, Lbox) == \A d \in 1..3 : 0 <= x[d] /\ x[d] < Lbox[d]

\* C16: get_subvolume_labels gives every point whose coordinates lie in
\* [0, Lbox_d) in each dimension d the label 1 + ix Ny Nz + iy Nz + iz, where
\* i_d = floor(x_d / (Lbox_d/Nsub_d)) and (Nx, Ny, Nz) = Nsub; the label lies
\* in 1..Nsubvol with Nsubvol = Nx Ny Nz, and is never 0.
C16_SubvolumeLabels ==
    (Applied("get_subvolume_labels") /\ InsideBox(args.x, args.Lbox)) =>
        LET i == [d \in 1..3 |-> FloorCell(args.x[d], args.Lbox[d], args.Nsub[d])]
            Ny == args.Nsub[2]
            Nz == args.Nsub[3]
        IN  /\ result.kind = "return"
            /\ result.value = 1 + i[1] * Ny * Nz + i[2] * Nz + i[3]
            /\ result.value \in 1..(args.Nsub[1] * Ny * Nz)
            /\ result.value # 0

C16_Witness ==
    /\ Applied("get_subvolume_labels") /\ args.Nsub = <<2, 2, 2>> /\ args.Lbox = <<3, 5, 2>>
    /\ args.x = <<2, 1, 1>>
    /\ result = Return(6)

\* Some point of the sample has a coordinate equal to Lbox in some dimension,
\* and every point of it lies in the closed box.
OnBoundary(smp, Lbox) ==
    /\ \E i \in 1..Len(smp.rows) : \E d \in 1..3 : Coord(smp.rows[i])[d] = Lbox[d]
    /\ \A i \in 1..Len(smp.rows) : \A d \in 1..3 :
        0 <= Coord(smp.rows[i])[d] /\ Coord(smp.rows[i])[d] <= Lbox[d]

\* The label of the cell of x when a coordinate equal to Lbox_d counts as a
\* coordinate of the last cell of dimension d.
ClampedLabel(x, Lbox, Nsub) ==
    LET i == [d \in 1..3 |-> IF x[d] = Lbox[d] THEN Nsub[d] - 1
                             ELSE FloorCell(x[d], Lbox[d], Nsub[d])]
    IN  1 + i[1] * Nsub[2] * Nsub[3] + i[2] * Nsub[3] + i[3]

\* C17 (as claimed): in tpcf_jackknife, when a point of sample1 has a
\* coordinate exactly equal to Lbox_d, the call does not fail in the
\* partitioner, and once the labels are assigned every point of sample1 has
\* the label of its cell, the last cell of dimension d for a coordinate equal
\* to Lbox_d.
C17_BoundaryPointLastCell ==
    (args.fn = "tpcf_jackknife" /\ pc \in {"pairs", "randoms", "dispatch", "done"}
        /\ OnBoundary(sample1, Broadcast(args.Lbox, 3)))
    => /\ ~Raised("IndexError")
       /\ labels # NoLabels =>
            \A i \in 1..Len(sample1.rows) :
                labels.j_index_1[i] = ClampedLabel(Coord(sample1.rows[i]), Broadcast(args.Lbox, 3),
                                                   Broadcast(args.Nsub, 3))

\* The number of points that carry label r.
Tally(j_index, r) == Cardinality({i \in 1..Len(j_index) : j_index[i] = r})

\* C18: for labels drawn from 1..Nsubvol, get_subvolume_numbers returns a
\* vector of exactly Nsubvol tallies in label order, 0 for a label no point
\* carries, the tallies summing to the number of points; and the sample size
\* used for the delete-one resample r is the full size minus tally r.
C18_SubvolumeNumbers ==
    Applied("get_subvolume_numbers") =>
        LET N == args.N_sub_vol
            numbers == result.value.numbers
        IN  /\ Len(numbers) = N
            /\ \A r \in 1..N : numbers[r] = Tally(args.j_index, r)
            /\ ISum(numbers, Len(numbers)) = Len(args.j_index)
            /\ Len(result.value.N1_subs) = N
            /\ \A r \in 1..N : result.value.N1_subs[r] = Len(args.j_index) - Tally(args.j_index, r)

C18_Witness ==
    /\ Applied("get_subvolume_numbers") /\ args.N_sub_vol = 3 /\ args.j_index = <<3, 1, 3>>
    /\ result.value.numbers = <<1, 0, 2>>
    /\ result.value.N1_subs = <<2, 3, 1>>

\* N1 x (volume of the bin) x N1/(product of the period), the volume in units
\* of its coefficient.
ClaimedD1R(N1, volume, per) == Rat(N1 * volume * N1, Prod(per))

\* C19: with a period and no randoms, in each bin D1R = N1 x (shell volume) x
\* N1/(product of the period); the shell volume is the difference of the
\* k-ball volumes (pi^(k/2)/Gamma(k/2+1)) R^k at consecutive radial edges in
\* tpcf, and the difference across both axes of the cylinder volume pi R^2 h in
\* redshift_space_tpcf; in auto-correlation mode RR is D1R itself.
C19_AnalyticRandoms ==
    Applied("random_counts") =>
        LET c == result.value.counts
            N1 == Len(args.sample1.rows)
            R == args.rbins
            h == args.pi_bins
            k == args.sample1.k
            V(i, j) == R[i] * R[i] * h[j]
        IN  /\ args.entry = "tpcf" =>
                /\ result.value.unit = [pi_exponent_times_2 |-> k, gamma_argument_times_2 |-> k + 2]
                /\ Len(c.D1R) = Len(R) - 1
                /\ \A i \in 1..(Len(R) - 1) :
                    REq(c.D1R[i], ClaimedD1R(N1, Pow(R[i + 1], k) - Pow(R[i], k), args.period))
            /\ args.entry = "redshift_space_tpcf" =>
                /\ result.value.unit = [pi_exponent_times_2 |-> 2, gamma_argument_times_2 |-> 2]
                /\ Len(c.D1R) = Len(R) - 1
                /\ \A i \in 1..(Len(R) - 1) :
                    /\ Len(c.D1R[i]) = Len(h) - 1
                    /\ \A j \in 1..(Len(h) - 1) :
                        REq(c.D1R[i][j],
                            ClaimedD1R(N1, V(i + 1, j + 1) - V(i, j + 1) - V(i + 1, j) + V(i, j),
                                       args.period))
            /\ NpAllEqual(args.sample1, args.sample2) => c.RR = c.D1R

C19_Witness ==
    /\ Applied("random_counts") /\ args.entry = "tpcf"
    /\ args.sample1 = Sample(3, <<1, 2, 1>>) /\ args.sample2 = args.sample1
    /\ args.rbins = <<1, 2>> /\ args.period = <<4, 4, 4>>
    /\ REq(result.value.counts.D1R[1], Rat(63, 64))
    /\ result.value.counts.RR = result.value.counts.D1R

\* w is the integral over pi of one correlation surface that
\* redshift_space_tpcf returned: integrate_2D_xi was given a single 2-D array,
\* whose rows are the rp bins.
IntegralOfOneSurface(w) == Len(w.of) = 1 /\ w.of[1].name \in {"xi_11", "xi_12", "xi_22"}

\* C20 (as claimed): every array wp returns holds, for each rp bin i, the sum
\* over the pi bins j of xi(i,j) (pi_bins[j+1] - pi_bins[j]) for a surface xi
\* returned by redshift_space_tpcf on the same arguments.
C20_WpIsIntegralOverPi ==
    (Returned /\ args.fn = "wp") =>
        \A i \in 1..Len(result.value) : IntegralOfOneSurface(result.value[i])

(***************************************************************************)
(* C21..C30                                                                *)
(***************************************************************************)
\* x is neither inf nor nan.
IsFinite(x) == x.d # 0

\* The count the formula of the estimator divides by, in bin i.
DenominatorCount(a, i) ==
    IF a.estimator \in {"Davis-Peebles", "Hamilton"} THEN a.DR[i] ELSE a.RR[i]

\* C21: when the denominator count of the selected estimator (RR, or DR for
\* Davis-Peebles and Hamilton) is zero in some bin, TP_estimator of tpcf, of
\* redshift_space_tpcf and of tpcf_jackknife still returns, with a non-finite
\* value in exactly the bins whose denominator count is zero; every other bin
\* holds the finite value of the estimator's formula.
C21_ZeroDenominatorPropagates ==
    (Applied("TP_estimator_bins") /\ IsSupported(args.estimator)) =>
        /\ result.kind = "return"
        /\ \A xi \in {result.value.tpcf, result.value.redshift_space_tpcf,
                      result.value.tpcf_jackknife} :
            \A i \in 1..2 :
                IF DenominatorCount(args, i) = 0 THEN ~IsFinite(xi[i])
                ELSE IsFinite(xi[i]) /\ REq(xi[i], ClaimedXi(BinOf(args, i)))

C21_Witness ==
    /\ Applied("TP_estimator_bins") /\ args.estimator = "Natural"
    /\ args.RR = <<0, 1>> /\ args.DD = <<2, 2>> /\ args.ND2 = 2
    /\ result.kind = "return"
    /\ ~IsFinite(result.value.tpcf[1])
    /\ ~IsFinite(result.value.tpcf_jackknife[1])
    /\ REq(result.value.tpcf[2], Rat(7, 2))
    /\ REq(result.value.tpcf_jackknife[2], Rat(7, 2))

\* C22 (as claimed): in tpcf_jackknife, when only the randoms have more than
\* max_sample_size points, after the down-sampling the randoms are
\* max_sample_size of the caller's randoms, and sample1 and sample2 are the
\* caller's samples.
C22_OnlyRandomsDownsampled ==
    (args.fn = "tpcf_jackknife" /\ NoSampleExceeds /\ inds.randoms # <<>>)
    => /\ CappedTo(args.randoms, randoms, args.max_sample_size)
       /\ sample1 = args.sample1
       /\ sample2 = InSample2

\* The mock bound to the model, <<>> when there is none.
BoundMock == model.mock

\* The keywords of a call disagree with the halo catalogue of the mock m: the
\* requested redshift by more than 0.05, or the requested simname or
\* halo_finder at all, each taken from its keyword, else from the passed
\* halocat, else from the defaults.
Disagrees(kw, m) ==
    LET want(name, default) == IF kw[name] # <<>> THEN kw[name][1]
                               ELSE IF kw.halocat # <<>> THEN kw.halocat[1][name]
                               ELSE default
        dz == want("redshift", default_redshift) - m.halocat.redshift
    IN  \/ dz > 5 \/ dz < 0 - 5
        \/ want("simname", default_simname) # m.halocat.simname
        \/ want("halo_finder", default_halo_finder) # m.halocat.halo_finder

\* C23: over any sequence of calls of populate_mock on one model, a call that
\* returns leaves a mock bound; a call made while a mock is bound leaves the
\* same mock object bound and either raises HalotoolsError without calling
\* populate (exactly when its keywords disagree with the bound mock's halo
\* catalogue) or calls populate on that mock and nothing else.
C23_MockBoundOnce ==
    [][ /\ (BoundMock = <<>> /\ result'.kind = "return") => model'.mock # <<>>
        /\ BoundMock # <<>> =>
            /\ model'.mock = BoundMock
            /\ IF Disagrees(args', BoundMock[1])
               THEN result' = Raise("HalotoolsError") /\ calls' = <<>>
               ELSE calls' = <<Made("populate", BoundMock[1].id)>>
      ]_vars

\* A later call whose simname, taken from the passed halocat, is not the one
\* of the bound mock: rejected without a call of populate.
C23_Witness ==
    /\ BoundMock # <<>> /\ args.fn = "populate_mock"
    /\ args.simname = <<>> /\ args.halocat # <<>>
    /\ args.halocat[1].simname # BoundMock[1].halocat.simname
    /\ args.halocat[1].redshift = BoundMock[1].halocat.redshift
    /\ result = Raise("HalotoolsError") /\ calls = <<>>

\* The arguments TP_estimator is given for resample r and bin i.
ResampleBin(a, r, i) ==
    [DD |-> a.DD[r][i], DR |-> a.DR[r][i], RR |-> a.RR[r][i],
     ND1 |-> a.ND1[r], ND2 |-> a.ND2[r], NR1 |-> a.NR[r], NR2 |-> a.NR[r],
     estimator |-> a.estimator]

\* C24 (as claimed): in tpcf_jackknife, for each of the five estimators, the
\* array of delete-one estimates has one row per subvolume and one column per
\* bin, and its entry (r, i) is the estimator's formula applied to the counts
\* of resample r in bin i with the sample sizes of resample r.
C24_DeleteOneEstimates ==
    Applied("TP_estimator_jk") =>
        LET xi_sub == result.value
            N == args.N_sub_vol
            nb == Len(args.DD[1])
        IN  /\ Len(xi_sub) = N
            /\ \A r \in 1..N :
                /\ Len(xi_sub[r]) = nb
                /\ \A i \in 1..nb : REq(xi_sub[r][i], ClaimedXi(ResampleBin(args, r, i)))

\* The counts named x and y hold the same numbers: the same count, or the
\* analytic D1R = N1 dv N1/V and RR = dv N1 N2/V of samples of equal size.
SameCount(x, y) ==
    \/ x = y
    \/ /\ {x, y} = {"D1R", "RR"}
       /\ counts.D1R = "analytic" /\ counts.RR = "analytic"
       /\ Len(sample1.rows) = Len(sample2.rows)

\* Two evaluations of TP_estimator give the same array: the same estimator and
\* sample sizes, and the same numbers in every count the estimator reads.
SameEstimate(x, y) ==
    /\ x.estimator = y.estimator
    /\ \A f \in {"ND1", "ND2", "NR1", "NR2"} : x[f] = y[f]
    /\ \A f \in Reads(x.estimator) : SameCount(x[f], y[f])

DistinctSamples == ~SamplesEqualAtCall /\ ~NpAllEqual(sample2, sample1)

\* C25 (as claimed): in tpcf and redshift_space_tpcf with two distinct
\* samples, do_auto=True and do_cross=False, the call returns one array, the
\* estimator applied to (D1D1, D1R, RR) with the random-random counts as RR:
\* the first array returned for the same inputs with do_cross=True as well.
C25_AutoOnlyUsesRR ==
    (Returned /\ args.fn \in {"tpcf", "redshift_space_tpcf"} /\ DistinctSamples
        /\ args.do_auto /\ ~args.do_cross)
    => /\ Len(result.value) = 1
       /\ SameEstimate(result.value[1].xi,
                       Dispatch(FALSE, TRUE, TRUE, args.estimator)[1].xi)

\* The channel of an array tpcf_jackknife returns: the name tpcf gives to the
\* correlation function, and whether the array is its covariance matrix.
Channel(name) ==
    CASE name \in {"xi_11_full", "xi_11_cov"} -> "xi_11"
      [] name \in {"xi_12_full", "xi_12_cov"} -> "xi_12"
      [] name \in {"xi_22_full", "xi_22_cov"} -> "xi_22"
      [] OTHER -> name

IsCovariance(name) == name \in {"xi_11_cov", "xi_12_cov", "xi_22_cov"}

\* C26: a returned call of tpcf_jackknife with two distinct samples and at
\* least one of do_auto, do_cross returns the correlation functions of the
\* channels tpcf returns for the same flags, in the same order, followed by the
\* covariance matrix of each of them in that order.
C26_SameChannelsAsTpcf ==
    (Returned /\ args.fn = "tpcf_jackknife" /\ DistinctSamples
        /\ (args.do_auto \/ args.do_cross))
    => LET t == Dispatch(FALSE, args.do_auto, args.do_cross, args.estimator)
           n == Len(t)
       IN  /\ Len(result.value) = 2 * n
           /\ \A i \in 1..n :
                /\ ~IsCovariance(result.value[i].name)
                /\ Channel(result.value[i].name) = t[i].name
                /\ IsCovariance(result.value[n + i].name)
                /\ Channel(result.value[n + i].name) = t[i].name

\* The TP_estimator calls the call in progress evaluates once its counts are set.
EvaluatedNow ==
    IF args.fn = "tpcf_jackknife" THEN EvaluatedJk(args.estimator)
    ELSE Evaluated(NpAllEqual(sample2, sample1), args.do_auto, args.do_cross, args.estimator)

\* C27: when tpcf, redshift_space_tpcf (also under wp) or tpcf_jackknife is
\* about to evaluate TP_estimator, after the pair counts and the random counts
\* are set, no count read by the formula of the selected estimator is None.
C27_EvaluatedCountsPresent ==
    pc = "dispatch" =>
        \A i \in 1..Len(EvaluatedNow) : ~ReadsNone(EvaluatedNow[i], counts)

\* C28: in tpcf with a period, no randoms and two distinct samples of N1 and
\* N2 points, when the cross pair count of every bin is N1*N2*(shell volume)/
\* (box volume), the returned cross-correlation is 0 in every bin, for each of
\* the five estimators.
C28_UniformCrossIsZero ==
    LET dv == NpDiff(nball_volume(args.rbins, args.sample1.k))
        N1 == Len(args.sample1.rows)
        N2 == Len(args.sample2.rows)
    IN  (Applied("tpcf_cross")
            /\ \A i \in 1..Len(dv) : REq(args.D1D2[i], Rat(N1 * N2 * dv[i], Prod(args.period))))
        => /\ result.kind = "return"
           /\ \A i \in 1..Len(dv) : REq(result.value[i], RInt(0))

\* The full-sample estimate j of tpcf_jackknife (computed from the counts cj)
\* and the estimate x of tpcf (from the counts cx) are the same array: the same
\* channel, estimator and sample sizes, and every count the estimator reads is
\* the same pair count of the same samples, counted in both calls (row 0 of
\* the jackknife pair counter being the plain pair count).
SameAsFull(j, cj, x, cx) ==
    /\ ~IsCovariance(j.name)
    /\ Channel(j.name) = x.name
    /\ j.xi.estimator = x.xi.estimator
    /\ \A f \in {"ND1", "ND2", "NR1", "NR2"} : j.xi[f] = x.xi[f]
    /\ \A f \in Reads(x.xi.estimator) :
        /\ CountOf(j.xi[f]) = x.xi[f]
        /\ StatusOf(cj, j.xi[f]) = "counted"
        /\ StatusOf(cx, x.xi[f]) = "counted"

\* The call of tpcf with the arguments of the call in progress.
AsTpcf == RunCall([args EXCEPT !.fn = "tpcf"])

\* C29: a returned call of tpcf_jackknife that draws no index, with one sample
\* or with do_auto and do_cross both True, returns as its full-sample
\* correlation functions the arrays tpcf returns for the same samples,
\* randoms, bins, period and estimator, followed by as many covariance
\* matrices.
C29_FullSampleIsTpcf ==
    (Returned /\ args.fn = "tpcf_jackknife" /\ NoDownsampling
        /\ (NpAllEqual(sample2, sample1) \/ (args.do_auto /\ args.do_cross)))
    => LET t == AsTpcf
           n == Len(t.result.value)
       IN  /\ t.result.kind = "return"
           /\ n >= 1
           /\ Len(result.value) = 2 * n
           /\ \A i \in 1..n : SameAsFull(result.value[i], counts, t.result.value[i], t.counts)

C29_Witness ==
    /\ Returned /\ args.fn = "tpcf_jackknife" /\ NoDownsampling
    /\ ~NpAllEqual(sample2, sample1) /\ args.do_auto /\ args.do_cross
    /\ args.estimator = "Landy-Szalay" /\ args.period # NoPeriod
    /\ Len(result.value) = 6
    /\ AsTpcf.result.kind = "return"
    /\ \A i \in 1..3 : SameAsFull(result.value[i], counts, AsTpcf.result.value[i], AsTpcf.counts)

\* The content of a model_dictionary, dictionary by dictionary: gal_type to
\* (galprop_name to component).
Content(h, model_dictionary) ==
    [gal_type \in DOMAIN h[model_dictionary] |-> h[h[model_dictionary][gal_type]]]

\* The content claimed for the dictionary of the new model: the baseline's
\* with every supplied component at [gal_type][galprop_name], the later
\* argument winning.
RECURSIVE Replaced(_, _, _)
Replaced(content, a, i) ==
    IF i > Len(a) THEN content
    ELSE Replaced([content EXCEPT ![a[i].gal_type] = SetItem(@, a[i].galprop_name, a[i])], a, i + 1)

\* C30: a call of customize_model that returns builds the new model from a
\* dictionary in which each supplied component replaces its entry, and every
\* call leaves the baseline's model_dictionary unchanged, nested dictionaries
\* included: the baseline maps each (gal_type, galprop_name) to the component
\* it had before the call.
C30_BaselineUnchanged ==
    [][CustomizeModel =>
        /\ Content(heap', model.model_dictionary) = Content(heap, model.model_dictionary)
        /\ result'.kind = "return" =>
             Content(heap', result'.value[1].model_dictionary)
                = Replaced(Content(heap, model.model_dictionary), args'.args, 1)]_vars

====
